---- MODULE Spec2Model ----
(***************************************************************************)
(* Model of the inline geometry kernel of vtkTriangle.h and vtkLine.h,     *)
(* of the static functions the two headers declare, and of the window,     *)
(* view and context life cycle of vtkCocoaRenderWindow.mm.                 *)
(*                                                                         *)
(* Number model.  A C++ double is modelled by its exact value, a record    *)
(* [p, q, r] standing for (p / q) * sqrt(r) in canonical form: q > 0,      *)
(* gcd(|p|, q) = 1, r square-free, and zero is [0, 1, 1].  q = 0 encodes   *)
(* the IEEE non-finite results of a division by zero (p = 1: +inf,         *)
(* p = -1: -inf, p = 0: NaN).  Vertex coordinates are small integers, on   *)
(* which the double operations +, - and * of the code are exact; sqrt and  *)
(* / are taken at their exact value, so the rounding of the last bit of a  *)
(* double is outside this model.                                           *)
(***************************************************************************)
EXTENDS Integers, Sequences, FiniteSets, TLC

VARIABLES
  v1, v2, v3,  \* the caller's three vertex arrays (for vtkLine: the segment v1, v2)
  n,           \* the caller's normal output array
  center,      \* the caller's center output array
  ret,         \* the last value returned
  pcoords,     \* the caller's parametric-coordinate output array
  op,          \* the function called last, "none" before the first call
  divisors,    \* the divisors of the divisions the last call executed, in order
  memo,        \* per function, what its first and its latest call wrote
  thr,         \* per thread: the static operation it runs, its arrays, its progress
  frame,       \* per storage slot: the local variables of the call using it
  call,        \* a call of another kernel function: its arguments and results
  win,         \* the vtkCocoaRenderWindow object and the Cocoa objects it holds
  env          \* the system it runs on: screen, parent view, allocators

\* The variables of the single-threaded calls of the inline triangle methods.
kvars == <<v1, v2, v3, n, center, ret, pcoords, op, divisors, memo>>

\* The variables of the other parts of the model.
others == <<thr, frame, call, win, env>>

vars == <<v1, v2, v3, n, center, ret, pcoords, op, divisors, memo, thr, frame, call, win, env>>

\* ------------------------------------------------------------- bounds
\* Vertex coordinates: x in 0..MaxX, y and z in 0..MaxYZ.
MaxX == 2
MaxYZ == 1
\* Uniform scale factors tried on a triangle: -MaxScale..MaxScale without 0.
MaxScale == 2

\* ------------------------------------------------------- double values
Abs(x) == IF x < 0 THEN -x ELSE x

Sign(x) == IF x < 0 THEN -1 ELSE IF x > 0 THEN 1 ELSE 0

RECURSIVE GCD(_, _)
GCD(a, b) == IF b = 0 THEN a ELSE GCD(b, a % b)

\* The largest s with s*s dividing r, found by stripping square factors d*d.
RECURSIVE SquarePart(_, _)
SquarePart(r, d) ==
  IF d * d > r THEN 1
  ELSE IF r % (d * d) = 0 THEN d * SquarePart(r \div (d * d), d)
  ELSE SquarePart(r, d + 1)

Zero == [p |-> 0, q |-> 1, r |-> 1]

NaN == [p |-> 0, q |-> 0, r |-> 1]

\* The canonical record of (p / q) * sqrt(r), q >= 0, r >= 1.
Mk(p, q, r) ==
  IF q = 0 THEN [p |-> Sign(p), q |-> 0, r |-> 1]
  ELSE IF p = 0 THEN Zero
  ELSE LET s == SquarePart(r, 2)
           pp == p * s
           g == GCD(Abs(pp), q)
       IN [p |-> pp \div g, q |-> q \div g, r |-> r \div (s * s)]

\* An integer-valued double.
I(k) == [p |-> k, q |-> 1, r |-> 1]

IsFinite(x) == x.q # 0

NNeg(x) == [p |-> -x.p, q |-> x.q, r |-> x.r]

\* x + y; the model only ever adds values whose radicals agree.
NAdd(x, y) ==
  CASE ~IsFinite(x) \/ ~IsFinite(y) -> NaN
    [] x.p = 0 -> y
    [] y.p = 0 -> x
    [] x.r = y.r -> LET g == GCD(x.q, y.q)
                    IN Mk(x.p * (y.q \div g) + y.p * (x.q \div g), (x.q \div g) * y.q, x.r)

NSub(x, y) == NAdd(x, NNeg(y))

NMul(x, y) ==
  IF ~IsFinite(x) \/ ~IsFinite(y) THEN NaN
  ELSE Mk(x.p * y.p, x.q * y.q, x.r * y.r)

\* x / y as IEEE defines it: a finite x over zero is an infinity, 0/0 is NaN.
NDiv(x, y) ==
  IF ~IsFinite(x) \/ ~IsFinite(y) THEN NaN
  ELSE IF y.p = 0 THEN [p |-> Sign(x.p), q |-> 0, r |-> 1]
  ELSE Mk(Sign(y.p) * x.p * y.q, x.q * Abs(y.p) * y.r, x.r * y.r)

\* sqrt of a rational x >= 0.
NSqrt(x) ==
  IF ~IsFinite(x) \/ x.p < 0 \/ x.r # 1 THEN NaN
  ELSE IF x.p = 0 THEN Zero
  ELSE Mk(1, x.q, x.p * x.q)

Vec(a, b, c) == <<I(a), I(b), I(c)>>

ZeroVec == <<Zero, Zero, Zero>>

\* What an output array or result holds before any call has written it.
Junk == I(7)

JunkVec == <<Junk, Junk, Junk>>

Point == {Vec(x, y, z) : x \in 0..MaxX, y \in 0..MaxYZ, z \in 0..MaxYZ}

\* ------------------------------------------------------ the operations

\* vtkMath::Norm: the Euclidean length of a 3-vector.
Norm(x) == NSqrt(NAdd(NAdd(NMul(x[1], x[1]), NMul(x[2], x[2])), NMul(x[3], x[3])))

\* Mutant: the two edge vectors exchanged (a = v1 - v2, b = v3 - v2).
ComputeNormalDirection_EdgesExchanged(a1, a2, a3) ==
  LET ax == NSub(a1[1], a2[1])
      ay == NSub(a1[2], a2[2])
      az == NSub(a1[3], a2[3])
      bx == NSub(a3[1], a2[1])
      by == NSub(a3[2], a2[2])
      bz == NSub(a3[3], a2[3])
  IN << NSub(NMul(ay, bz), NMul(az, by)),
        NSub(NMul(az, bx), NMul(ax, bz)),
        NSub(NMul(ax, by), NMul(ay, bx)) >>

\* Mutant: by taken against v3 instead of v2.
ComputeNormalDirection_WrongBase(a1, a2, a3) ==
  LET ax == NSub(a3[1], a2[1])
      ay == NSub(a3[2], a2[2])
      az == NSub(a3[3], a2[3])
      bx == NSub(a1[1], a2[1])
      by == NSub(a1[2], a3[2])
      bz == NSub(a1[3], a2[3])
  IN << NSub(NMul(ay, bz), NMul(az, by)),
        NSub(NMul(az, bx), NMul(ax, bz)),
        NSub(NMul(ax, by), NMul(ay, bx)) >>

ComputeNormalDirection(a1, a2, a3) ==
  LET ax == NSub(a3[1], a2[1])
      ay == NSub(a3[2], a2[2])
      az == NSub(a3[3], a2[3])
      bx == NSub(a1[1], a2[1])
      by == NSub(a1[2], a2[2])
      bz == NSub(a1[3], a2[3])
  IN << NSub(NMul(ay, bz), NMul(az, by)),
        NSub(NMul(az, bx), NMul(ax, bz)),
        NSub(NMul(ax, by), NMul(ay, bx)) >>

\* The length ComputeNormal computes after ComputeNormalDirection.
ComputeNormalLength(a1, a2, a3) ==
  LET d == ComputeNormalDirection(a1, a2, a3)
  IN NSqrt(NAdd(NAdd(NMul(d[1], d[1]), NMul(d[2], d[2])), NMul(d[3], d[3])))

\* Mutant: the sqrt forgotten, n divided by the squared length.
ComputeNormal_NoSqrt(a1, a2, a3) ==
  LET d == ComputeNormalDirection(a1, a2, a3)
      length == NAdd(NAdd(NMul(d[1], d[1]), NMul(d[2], d[2])), NMul(d[3], d[3]))
  IN IF length # Zero
     THEN <<NDiv(d[1], length), NDiv(d[2], length), NDiv(d[3], length)>>
     ELSE d

\* Mutant: the guard on a zero length dropped.
ComputeNormal_NoGuard(a1, a2, a3) ==
  LET d == ComputeNormalDirection(a1, a2, a3)
      length == ComputeNormalLength(a1, a2, a3)
  IN <<NDiv(d[1], length), NDiv(d[2], length), NDiv(d[3], length)>>

ComputeNormal(a1, a2, a3) ==
  LET d == ComputeNormalDirection(a1, a2, a3)
      length == ComputeNormalLength(a1, a2, a3)
  IN IF length # Zero
     THEN <<NDiv(d[1], length), NDiv(d[2], length), NDiv(d[3], length)>>
     ELSE d

\* The divisors of the three n[i] /= length, in order; none when the guard fails.
ComputeNormalDivisors(a1, a2, a3) ==
  LET length == ComputeNormalLength(a1, a2, a3)
  IN IF length # Zero THEN <<length, length, length>> ELSE <<>>

\* Mutant: center[2] reads p3[1] instead of p3[2].
TriangleCenter_WrongIndex(p1, p2, p3) ==
  << NDiv(NAdd(NAdd(p1[1], p2[1]), p3[1]), I(3)),
     NDiv(NAdd(NAdd(p1[2], p2[2]), p3[2]), I(3)),
     NDiv(NAdd(NAdd(p1[3], p2[3]), p3[2]), I(3)) >>

TriangleCenter(p1, p2, p3) ==
  << NDiv(NAdd(NAdd(p1[1], p2[1]), p3[1]), I(3)),
     NDiv(NAdd(NAdd(p1[2], p2[2]), p3[2]), I(3)),
     NDiv(NAdd(NAdd(p1[3], p2[3]), p3[3]), I(3)) >>

\* Mutant: the factor 0.5 forgotten.
TriangleArea_NoHalf(p1, p2, p3) ==
  Norm(ComputeNormalDirection(p1, p2, p3))

\* Mutant: the length taken of the first two components only.
TriangleArea_Norm2D(p1, p2, p3) ==
  LET d == ComputeNormalDirection(p1, p2, p3)
  IN NMul(Mk(1, 2, 1), NSqrt(NAdd(NMul(d[1], d[1]), NMul(d[2], d[2]))))

TriangleArea(p1, p2, p3) ==
  NMul(Mk(1, 2, 1), Norm(ComputeNormalDirection(p1, p2, p3)))

\* Mutant: the center of the unit square instead of the triangle.
vtkTriangle_GetParametricCenter_Half ==
  [pcoords |-> <<Mk(1, 2, 1), Mk(1, 2, 1), Zero>>, ret |-> I(0)]

vtkTriangle_GetParametricCenter ==
  [pcoords |-> <<NDiv(I(1), I(3)), NDiv(I(1), I(3)), Zero>>, ret |-> I(0)]

vtkLine_GetParametricCenter ==
  [pcoords |-> <<Mk(1, 2, 1), Zero, Zero>>, ret |-> I(0)]

\* ------------------------------------------------------------ the calls

StaticOps == {"ComputeNormalDirection", "ComputeNormal", "TriangleCenter", "TriangleArea"}

NoMemo == [f \in StaticOps |-> <<>>]

\* The local variables of a call before it has assigned them.
NoFrame == [a |-> JunkVec, b |-> JunkVec, length |-> Junk, n |-> JunkVec]

\* The caller's output arrays of a thread before its call has written them.
NoIO == [n |-> JunkVec, center |-> JunkVec, ret |-> Junk]

\* The other parts of the model at rest.
OthersIdle ==
  /\ thr = <<>>
  /\ frame = <<>>
  /\ call = [fn |-> "none"]
  /\ win = <<>>
  /\ env = <<>>

Outputs ==
  /\ OthersIdle
  /\ n = JunkVec
  /\ center = JunkVec
  /\ ret = Junk
  /\ pcoords = JunkVec
  /\ op = "none"
  /\ divisors = <<>>
  /\ memo = NoMemo

Init ==
  /\ v1 \in Point
  /\ v2 \in Point
  /\ v3 \in Point
  /\ Outputs

\* memo after function f wrote w: what the first call of f wrote and, once f
\* has been called again, what its latest call wrote.
Remember(f, w) ==
  IF memo[f] = <<>> THEN [memo EXCEPT ![f] = <<w>>]
  ELSE [memo EXCEPT ![f] = <<memo[f][1], w>>]

CallComputeNormalDirection ==
  /\ n' = ComputeNormalDirection(v1, v2, v3)
  /\ divisors' = <<>>
  /\ op' = "ComputeNormalDirection"
  /\ memo' = Remember("ComputeNormalDirection", n')
  /\ UNCHANGED <<v1, v2, v3, center, ret, pcoords>>

CallComputeNormal ==
  /\ n' = ComputeNormal(v1, v2, v3)
  /\ divisors' = ComputeNormalDivisors(v1, v2, v3)
  /\ op' = "ComputeNormal"
  /\ memo' = Remember("ComputeNormal", n')
  /\ UNCHANGED <<v1, v2, v3, center, ret, pcoords>>

CallTriangleCenter ==
  /\ center' = TriangleCenter(v1, v2, v3)
  /\ divisors' = <<I(3), I(3), I(3)>>
  /\ op' = "TriangleCenter"
  /\ memo' = Remember("TriangleCenter", center')
  /\ UNCHANGED <<v1, v2, v3, n, ret, pcoords>>

\* Mutant: the normal computed into the caller's n instead of a local array.
CallTriangleArea_WritesN ==
  /\ n' = ComputeNormalDirection(v1, v2, v3)
  /\ ret' = NMul(Mk(1, 2, 1), Norm(n'))
  /\ divisors' = <<>>
  /\ op' = "TriangleArea"
  /\ memo' = Remember("TriangleArea", ret')
  /\ UNCHANGED <<v1, v2, v3, center, pcoords>>

CallTriangleArea ==
  /\ ret' = TriangleArea(v1, v2, v3)
  /\ divisors' = <<>>
  /\ op' = "TriangleArea"
  /\ memo' = Remember("TriangleArea", ret')
  /\ UNCHANGED <<v1, v2, v3, n, center, pcoords>>

CallTriangleGetParametricCenter ==
  /\ pcoords' = vtkTriangle_GetParametricCenter.pcoords
  /\ ret' = vtkTriangle_GetParametricCenter.ret
  /\ divisors' = <<I(3)>>
  /\ op' = "vtkTriangle::GetParametricCenter"
  /\ UNCHANGED <<v1, v2, v3, n, center, memo>>

CallLineGetParametricCenter ==
  /\ pcoords' = vtkLine_GetParametricCenter.pcoords
  /\ ret' = vtkLine_GetParametricCenter.ret
  /\ divisors' = <<>>
  /\ op' = "vtkLine::GetParametricCenter"
  /\ UNCHANGED <<v1, v2, v3, n, center, memo>>

\* One call on freshly drawn inputs.
Fresh == op = "none"

\* One call of a normal computation on a freshly drawn triangle.
Next ==
  \/ Fresh /\ CallComputeNormalDirection /\ UNCHANGED others
  \/ Fresh /\ CallComputeNormal /\ UNCHANGED others

Spec == Init /\ [][Next]_vars

\* One call of an area or center computation on a freshly drawn triangle.
AreaNext ==
  \/ Fresh /\ CallTriangleArea /\ UNCHANGED others
  \/ Fresh /\ CallTriangleCenter /\ UNCHANGED others
  \/ Fresh /\ CallTriangleGetParametricCenter /\ UNCHANGED others
  \/ Fresh /\ CallLineGetParametricCenter /\ UNCHANGED others

AreaSpec == Init /\ [][AreaNext]_vars

\* Any sequence of calls of the static operations on one triangle, whose second
\* vertex is the origin.
SeqInit ==
  /\ v1 \in Point
  /\ v2 = Vec(0, 0, 0)
  /\ v3 \in Point
  /\ Outputs

SeqNext ==
  \/ CallComputeNormalDirection /\ UNCHANGED others
  \/ CallComputeNormal /\ UNCHANGED others
  \/ CallTriangleCenter /\ UNCHANGED others
  \/ CallTriangleArea /\ UNCHANGED others

SeqSpec == SeqInit /\ [][SeqNext]_vars

\* ------------------------------------------------- the claims' vocabulary

\* The largest difference of two coordinates.
MaxDiff == IF MaxX > MaxYZ THEN MaxX ELSE MaxYZ

\* p1, p2, p3 lie on one line (or coincide): the integer vectors p2 - p1 and
\* p3 - p1 are linearly dependent.
Collinear(p1, p2, p3) ==
  \E k \in 0..MaxDiff, m \in -MaxDiff..MaxDiff :
    /\ <<k, m>> # <<0, 0>>
    /\ \A i \in 1..3 : k * (p2[i].p - p1[i].p) = m * (p3[i].p - p1[i].p)

VNeg(x) == <<NNeg(x[1]), NNeg(x[2]), NNeg(x[3])>>

Scaled(s, x) == <<NMul(I(s), x[1]), NMul(I(s), x[2]), NMul(I(s), x[3])>>

Scales == (-MaxScale..MaxScale) \ {0}

Dot(x, y) == NAdd(NAdd(NMul(x[1], y[1]), NMul(x[2], y[2])), NMul(x[3], y[3]))

OddPermutations(a, b, c) == {<<c, b, a>>, <<b, a, c>>, <<a, c, b>>}

AllPermutations(a, b, c) ==
  OddPermutations(a, b, c) \cup {<<a, b, c>>, <<b, c, a>>, <<c, a, b>>}

\* ------------------------------------------------------------- claims

\* C1: after ComputeNormalDirection, n is exactly the cross product
\* (v3 - v2) x (v1 - v2), component by component, and nothing was divided:
\* the components are the integers the formula gives, not normalized.
C1_NormalDirectionIsCrossProduct ==
  op = "ComputeNormalDirection" =>
    LET ax == v3[1].p - v2[1].p
        ay == v3[2].p - v2[2].p
        az == v3[3].p - v2[3].p
        bx == v1[1].p - v2[1].p
        by == v1[2].p - v2[2].p
        bz == v1[3].p - v2[3].p
    IN /\ n = Vec(ay * bz - az * by, az * bx - ax * bz, ax * by - ay * bx)
       /\ divisors = <<>>

C1_Witness ==
  /\ op = "ComputeNormalDirection"
  /\ \A i \in 1..3 : n[i] # Zero
  /\ Dot(n, n) # I(1)

\* C2: every odd permutation of the vertices gives the exact negation of the
\* normal direction, and of the unit normal of a non-degenerate triangle.
C2_WindingReversalFlipsNormal ==
  /\ op = "ComputeNormalDirection" =>
       \A q \in OddPermutations(v1, v2, v3) :
         ComputeNormalDirection(q[1], q[2], q[3]) = VNeg(n)
  /\ (op = "ComputeNormal" /\ ~Collinear(v1, v2, v3)) =>
       \A q \in OddPermutations(v1, v2, v3) :
         ComputeNormal(q[1], q[2], q[3]) = VNeg(n)

C2_Witness ==
  /\ op = "ComputeNormal"
  /\ ~Collinear(v1, v2, v3)
  /\ \A i \in 1..3 : n[i] # Zero
  /\ ComputeNormal(v3, v2, v1) = VNeg(n)

\* C3: for a non-degenerate triangle and every scale factor s # 0, the unit
\* normal of the scaled triangle is the unit normal of the triangle, and the
\* un-normalized direction is s*s times the direction of the triangle.
C3_NormalScaleInvariant ==
  (op = "ComputeNormal" /\ ~Collinear(v1, v2, v3)) =>
    LET d == ComputeNormalDirection(v1, v2, v3)
    IN \A s \in Scales :
         LET s1 == Scaled(s, v1)
             s2 == Scaled(s, v2)
             s3 == Scaled(s, v3)
         IN /\ ComputeNormal(s1, s2, s3) = n
            /\ ComputeNormalDirection(s1, s2, s3) = Scaled(s * s, d)

C3_Witness ==
  /\ op = "ComputeNormal"
  /\ ~Collinear(v1, v2, v3)
  /\ n[1].r > 1
  /\ ComputeNormal(Scaled(-2, v1), Scaled(-2, v2), Scaled(-2, v3)) = n

\* C4: for a degenerate triangle ComputeNormal divides nothing and leaves n
\* the zero vector; for any other triangle it divides the three components by
\* the length and n has unit length; no divisor is ever zero and n is finite.
C4_DegenerateNormalIsZero ==
  op = "ComputeNormal" =>
    /\ Collinear(v1, v2, v3) => (divisors = <<>> /\ n = ZeroVec)
    /\ ~Collinear(v1, v2, v3) =>
         /\ Len(divisors) = 3
         /\ \A i \in 1..3 : n[i] = NDiv(ComputeNormalDirection(v1, v2, v3)[i], divisors[i])
         /\ Dot(n, n) = I(1)
    /\ \A i \in DOMAIN divisors : divisors[i] # Zero
    /\ \A i \in 1..3 : IsFinite(n[i])

C4_Witness ==
  /\ op = "ComputeNormal"
  /\ Collinear(v1, v2, v3)
  /\ v1 # v2 /\ v2 # v3 /\ v1 # v3
  /\ n = ZeroVec
  /\ divisors = <<>>

\* C5: TriangleArea is half the length of the ComputeNormalDirection vector,
\* 4 * area^2 = |n|^2, and never negative.
C5_AreaIsHalfNormalLength ==
  op = "TriangleArea" =>
    LET d == ComputeNormalDirection(v1, v2, v3)
    IN /\ NMul(I(4), NMul(ret, ret)) = Dot(d, d)
       /\ IsFinite(ret)
       /\ ret.p >= 0

C5_Witness ==
  /\ op = "TriangleArea"
  /\ ret.r > 1
  /\ ret.q = 2

\* C6: TriangleArea is the same for the three cyclic orders of its arguments.
C6_AreaCyclicInvariant ==
  op = "TriangleArea" =>
    /\ TriangleArea(v2, v3, v1) = ret
    /\ TriangleArea(v3, v1, v2) = ret

C6_Witness ==
  /\ op = "TriangleArea"
  /\ ret # Zero
  /\ ComputeNormalDirection(v2, v3, v1) = ComputeNormalDirection(v1, v2, v3)
  /\ \A i \in 1..3 : ComputeNormalDirection(v1, v2, v3)[i] # Zero
  /\ TriangleArea(v2, v3, v1) = ret

\* C7: collinear (or coinciding) vertices give the zero normal direction and
\* area 0, and vertices that are not collinear give an area > 0.
C7_DegenerateAreaIsZero ==
  op = "TriangleArea" =>
    /\ Collinear(v1, v2, v3) =>
         (ret = Zero /\ ComputeNormalDirection(v1, v2, v3) = ZeroVec)
    /\ ~Collinear(v1, v2, v3) => (IsFinite(ret) /\ ret.p > 0)

C7_Witness ==
  /\ op = "TriangleArea"
  /\ Collinear(v1, v2, v3)
  /\ v1 # v2 /\ v2 # v3 /\ v1 # v3
  /\ ret = Zero

\* C8: TriangleCenter writes the component-wise mean, 3 * center[i] =
\* p1[i] + p2[i] + p3[i], the point of barycentric weights (1/3, 1/3, 1/3),
\* whatever the order of the vertices.
C8_CenterIsMean ==
  op = "TriangleCenter" =>
    /\ \A i \in 1..3 :
         /\ NMul(I(3), center[i]) = I(v1[i].p + v2[i].p + v3[i].p)
         /\ center[i] = NAdd(NAdd(NMul(Mk(1, 3, 1), v1[i]), NMul(Mk(1, 3, 1), v2[i])),
                              NMul(Mk(1, 3, 1), v3[i]))
    /\ \A q \in AllPermutations(v1, v2, v3) : TriangleCenter(q[1], q[2], q[3]) = center

C8_Witness ==
  /\ op = "TriangleCenter"
  /\ center[1].q = 3
  /\ center[2].q = 3
  /\ center[3].q = 3
  /\ v1 # v2 /\ v2 # v3 /\ v1 # v3

\* C9: vtkTriangle::GetParametricCenter writes (1/3, 1/3, 0) and returns 0;
\* the weights (1 - r - s, r, s) are all 1/3 and interpolate the point
\* TriangleCenter computes.  vtkLine::GetParametricCenter writes (1/2, 0, 0)
\* and returns 0; that parameter is the midpoint of the segment v1, v2.
C9_ParametricCenter ==
  /\ op = "vtkTriangle::GetParametricCenter" =>
       LET w1 == NSub(NSub(I(1), pcoords[1]), pcoords[2])
           w2 == pcoords[1]
           w3 == pcoords[2]
       IN /\ pcoords = <<Mk(1, 3, 1), Mk(1, 3, 1), Zero>>
          /\ ret = Zero
          /\ w1 = Mk(1, 3, 1) /\ w2 = Mk(1, 3, 1) /\ w3 = Mk(1, 3, 1)
          /\ TriangleCenter(v1, v2, v3) =
               [i \in 1..3 |-> NAdd(NAdd(NMul(w1, v1[i]), NMul(w2, v2[i])), NMul(w3, v3[i]))]
  /\ op = "vtkLine::GetParametricCenter" =>
       /\ pcoords = <<Mk(1, 2, 1), Zero, Zero>>
       /\ ret = Zero
       /\ \A i \in 1..3 :
            NMul(I(2), NAdd(v1[i], NMul(pcoords[1], NSub(v2[i], v1[i])))) = NAdd(v1[i], v2[i])

C9_Witness ==
  /\ op = "vtkTriangle::GetParametricCenter"
  /\ pcoords[1] = Mk(1, 3, 1)
  /\ ret = Zero
  /\ ~Collinear(v1, v2, v3)

\* What the function called last wrote.
Written ==
  CASE op \in {"ComputeNormalDirection", "ComputeNormal"} -> n
    [] op = "TriangleCenter" -> center
    [] op = "TriangleArea" -> ret

\* C10: every call of a static operation leaves the three vertex arrays
\* unchanged, writes only its own output (n, center or the return value), and
\* writes what the first call of the same function wrote, whatever was called
\* in between.
C10_StaticOperationsArePure ==
  [][ /\ v1' = v1 /\ v2' = v2 /\ v3' = v3
      /\ pcoords' = pcoords
      /\ op' \in {"ComputeNormalDirection", "ComputeNormal"} =>
           (center' = center /\ ret' = ret)
      /\ op' = "TriangleCenter" => (n' = n /\ ret' = ret)
      /\ op' = "TriangleArea" => (n' = n /\ center' = center)
      /\ memo[op'] # <<>> => Written' = memo[op'][1] ]_vars

C10_Witness ==
  /\ op = "ComputeNormalDirection"
  /\ Len(memo["ComputeNormalDirection"]) = 2
  /\ Len(memo["ComputeNormal"]) = 2
  /\ Len(memo["TriangleArea"]) = 2
  /\ Len(memo["TriangleCenter"]) = 2
  /\ ~Collinear(v1, v2, v3)

\* ------------------------------------------- concurrent invocations

\* No render window.
WindowIdle ==
  /\ win = <<>>
  /\ env = <<>>

\* The single-threaded calls at rest.
KernelIdle ==
  /\ v1 = ZeroVec
  /\ v2 = ZeroVec
  /\ v3 = ZeroVec
  /\ n = JunkVec
  /\ center = JunkVec
  /\ ret = Junk
  /\ pcoords = JunkVec
  /\ op = "none"
  /\ divisors = <<>>
  /\ memo = NoMemo

Threads == {1, 2}

\* Mutant: the local variables declared static, one copy for all invocations.
LocalsOf_Static(t) == 1

\* The storage slot of the local variables of thread t's call: they are
\* automatic variables, so each invocation has its own.
LocalsOf(t) == t

\* The number of statements of each static operation: the nine assignments of
\* ComputeNormalDirection, then for ComputeNormal the length and three
\* divisions, for TriangleArea the return; TriangleCenter has three assignments.
NumStatements(f) ==
  CASE f = "ComputeNormalDirection" -> 9
    [] f = "ComputeNormal" -> 13
    [] f = "TriangleArea" -> 10
    [] f = "TriangleCenter" -> 3

\* Statement k of ComputeNormalDirection on triangle tri, with local variables
\* fr and output array nn.
NormalDirectionStatement(k, tri, fr, nn) ==
  CASE k = 1 -> [fr |-> [fr EXCEPT !.a[1] = NSub(tri[3][1], tri[2][1])], n |-> nn]
    [] k = 2 -> [fr |-> [fr EXCEPT !.a[2] = NSub(tri[3][2], tri[2][2])], n |-> nn]
    [] k = 3 -> [fr |-> [fr EXCEPT !.a[3] = NSub(tri[3][3], tri[2][3])], n |-> nn]
    [] k = 4 -> [fr |-> [fr EXCEPT !.b[1] = NSub(tri[1][1], tri[2][1])], n |-> nn]
    [] k = 5 -> [fr |-> [fr EXCEPT !.b[2] = NSub(tri[1][2], tri[2][2])], n |-> nn]
    [] k = 6 -> [fr |-> [fr EXCEPT !.b[3] = NSub(tri[1][3], tri[2][3])], n |-> nn]
    [] k = 7 -> [fr |-> fr,
                 n |-> [nn EXCEPT ![1] = NSub(NMul(fr.a[2], fr.b[3]), NMul(fr.a[3], fr.b[2]))]]
    [] k = 8 -> [fr |-> fr,
                 n |-> [nn EXCEPT ![2] = NSub(NMul(fr.a[3], fr.b[1]), NMul(fr.a[1], fr.b[3]))]]
    [] k = 9 -> [fr |-> fr,
                 n |-> [nn EXCEPT ![3] = NSub(NMul(fr.a[1], fr.b[2]), NMul(fr.a[2], fr.b[1]))]]

\* Statement k of operation f on triangle tri: the caller's arrays io and the
\* local variables fr after it, and the statement to execute next.
Statement(f, k, tri, io, fr) ==
  CASE f = "ComputeNormalDirection" ->
         LET r == NormalDirectionStatement(k, tri, fr, io.n)
         IN [io |-> [io EXCEPT !.n = r.n], fr |-> r.fr, pc |-> k + 1]
    [] f = "ComputeNormal" /\ k <= 9 ->
         LET r == NormalDirectionStatement(k, tri, fr, io.n)
         IN [io |-> [io EXCEPT !.n = r.n], fr |-> r.fr, pc |-> k + 1]
    [] f = "ComputeNormal" /\ k = 10 ->
         LET length == NSqrt(NAdd(NAdd(NMul(io.n[1], io.n[1]), NMul(io.n[2], io.n[2])),
                                  NMul(io.n[3], io.n[3])))
         IN [io |-> io, fr |-> [fr EXCEPT !.length = length],
             pc |-> IF length # Zero THEN 11 ELSE 14]
    [] f = "ComputeNormal" /\ k > 10 ->
         [io |-> [io EXCEPT !.n[k - 10] = NDiv(@, fr.length)], fr |-> fr, pc |-> k + 1]
    [] f = "TriangleArea" /\ k <= 9 ->
         LET r == NormalDirectionStatement(k, tri, fr, fr.n)
         IN [io |-> io, fr |-> [r.fr EXCEPT !.n = r.n], pc |-> k + 1]
    [] f = "TriangleArea" /\ k = 10 ->
         [io |-> [io EXCEPT !.ret = NMul(Mk(1, 2, 1), Norm(fr.n))], fr |-> fr, pc |-> k + 1]
    [] f = "TriangleCenter" ->
         [io |-> [io EXCEPT !.center[k] =
                    NDiv(NAdd(NAdd(tri[1][k], tri[2][k]), tri[3][k]), I(3))],
          fr |-> fr, pc |-> k + 1]

\* Thread t's call has returned.
Returned(t) == thr[t].pc > NumStatements(thr[t].f)

\* Thread t's call has executed a statement and has not returned.
Running(t) == thr[t].pc > 1 /\ ~Returned(t)

\* A vertex both threads' triangles have, each in an array of its own.
Apex == Vec(0, 1, 1)

\* Two threads, each about to call a static operation on arrays of its own.
ConcInit ==
  /\ KernelIdle
  /\ WindowIdle
  /\ call = [fn |-> "none"]
  /\ frame = [s \in Threads |-> NoFrame]
  /\ \E p \in Point : \E f1 \in StaticOps : \E f2 \in StaticOps :
       thr = [t \in Threads |->
                [f |-> IF t = 1 THEN f1 ELSE f2,
                 pc |-> 1,
                 tri |-> IF t = 1 THEN <<p, ZeroVec, Apex>> ELSE <<Apex, ZeroVec, p>>,
                 io |-> NoIO,
                 overlapped |-> FALSE]]

\* Thread t executes the next statement of its call.
Step(t) ==
  /\ ~Returned(t)
  /\ LET s == LocalsOf(t)
         r == Statement(thr[t].f, thr[t].pc, thr[t].tri, thr[t].io, frame[s])
     IN /\ thr' = [thr EXCEPT ![t].pc = r.pc,
                              ![t].io = r.io,
                              ![t].overlapped = @ \/ \E u \in Threads \ {t} : Running(u)]
        /\ frame' = [frame EXCEPT ![s] = r.fr]
  /\ UNCHANGED <<kvars, call, win, env>>

ConcNext ==
  \/ Step(1)
  \/ Step(2)

ConcSpec == ConcInit /\ [][ConcNext]_vars

\* What a call of f on tri leaves in the caller's arrays when it runs alone.
Alone(f, tri) ==
  CASE f = "ComputeNormalDirection" ->
         [NoIO EXCEPT !.n = ComputeNormalDirection(tri[1], tri[2], tri[3])]
    [] f = "ComputeNormal" -> [NoIO EXCEPT !.n = ComputeNormal(tri[1], tri[2], tri[3])]
    [] f = "TriangleArea" -> [NoIO EXCEPT !.ret = TriangleArea(tri[1], tri[2], tri[3])]
    [] f = "TriangleCenter" -> [NoIO EXCEPT !.center = TriangleCenter(tri[1], tri[2], tri[3])]

\* C11: concurrent invocations of the static operations on disjoint arrays need
\* no locking: under every interleaving of their statements, each invocation
\* that has returned left in its caller's arrays exactly what it leaves when it
\* runs alone.
C11_ConcurrentCallsDoNotInterfere ==
  \A t \in DOMAIN thr : Returned(t) => thr[t].io = Alone(thr[t].f, thr[t].tri)

\* Both threads returned from calls whose statements interleaved, one of them a
\* ComputeNormal of a non-degenerate triangle.
C11_Witness ==
  /\ DOMAIN thr = Threads
  /\ Returned(1) /\ Returned(2)
  /\ thr[1].overlapped /\ thr[2].overlapped
  /\ thr[1].f = "ComputeNormal" /\ thr[2].f = "TriangleArea"
  /\ thr[1].io.n # ZeroVec

\* ------------------------------- BarycentricCoords and ProjectTo2D

\* 2D points with integer coordinates.
Point2 == {<<I(a), I(b)>> : a \in 0..MaxX, b \in 0..MaxX}

JunkVec2 == <<Junk, Junk>>

\* Mutant: the third weight computed as 1 - b0.
BarycentricCoords_ThirdForgetsB1(x, x1, x2, x3, bcoords) ==
  LET e1x == NSub(x1[1], x3[1])
      e1y == NSub(x1[2], x3[2])
      e2x == NSub(x2[1], x3[1])
      e2y == NSub(x2[2], x3[2])
      dx == NSub(x[1], x3[1])
      dy == NSub(x[2], x3[2])
      det == NSub(NMul(e1x, e2y), NMul(e2x, e1y))
      b0 == NDiv(NSub(NMul(dx, e2y), NMul(e2x, dy)), det)
      b1 == NDiv(NSub(NMul(e1x, dy), NMul(dx, e1y)), det)
  IN IF det = Zero
     THEN [ret |-> I(0), out |-> bcoords, divisors |-> <<>>]
     ELSE [ret |-> I(1), out |-> <<b0, b1, NSub(I(1), b0)>>, divisors |-> <<det, det>>]

\* vtkTriangle::BarycentricCoords: the weights of x on x1, x2, x3 from the 2x2
\* system x - x3 = b0 (x1 - x3) + b1 (x2 - x3), the third as 1 - b0 - b1; 0 and
\* bcoords untouched when the determinant is zero.
BarycentricCoords(x, x1, x2, x3, bcoords) ==
  LET e1x == NSub(x1[1], x3[1])
      e1y == NSub(x1[2], x3[2])
      e2x == NSub(x2[1], x3[1])
      e2y == NSub(x2[2], x3[2])
      dx == NSub(x[1], x3[1])
      dy == NSub(x[2], x3[2])
      det == NSub(NMul(e1x, e2y), NMul(e2x, e1y))
      b0 == NDiv(NSub(NMul(dx, e2y), NMul(e2x, dy)), det)
      b1 == NDiv(NSub(NMul(e1x, dy), NMul(dx, e1y)), det)
  IN IF det = Zero
     THEN [ret |-> I(0), out |-> bcoords, divisors |-> <<>>]
     ELSE [ret |-> I(1), out |-> <<b0, b1, NSub(NSub(I(1), b0), b1)>>,
           divisors |-> <<det, det>>]

Cross(a, b) ==
  << NSub(NMul(a[2], b[3]), NMul(a[3], b[2])),
     NSub(NMul(a[3], b[1]), NMul(a[1], b[3])),
     NSub(NMul(a[1], b[2]), NMul(a[2], b[1])) >>

NDot(a, b) == NAdd(NAdd(NMul(a[1], b[1]), NMul(a[2], b[2])), NMul(a[3], b[3]))

VSub(a, b) == <<NSub(a[1], b[1]), NSub(a[2], b[2]), NSub(a[3], b[3])>>

\* Mutant: only a first edge of zero length is reported as failure.
ProjectTo2D_FirstEdgeOnly(x1, x2, x3, out) ==
  LET nn == ComputeNormal(x1, x2, x3)
      v21 == VSub(x2, x1)
      v31 == VSub(x3, x1)
      xLen == Norm(v21)
      ux == <<NDiv(v21[1], xLen), NDiv(v21[2], xLen), NDiv(v21[3], xLen)>>
      uy == Cross(nn, ux)
  IN IF xLen = Zero
     THEN [ret |-> I(0), out |-> out, divisors |-> <<>>]
     ELSE [ret |-> I(1),
           out |-> <<<<Zero, Zero>>, <<xLen, Zero>>, <<NDot(v31, ux), NDot(v31, uy)>>>>,
           divisors |-> ComputeNormalDivisors(x1, x2, x3) \o <<xLen, xLen, xLen>>]

\* vtkTriangle::ProjectTo2D: the vertices in the in-plane frame whose origin is
\* x1, whose x-axis is the first edge and whose y-axis is the unit normal
\* crossed with the x-axis; 0 and the outputs untouched for a zero-area triangle.
ProjectTo2D(x1, x2, x3, out) ==
  LET nn == ComputeNormal(x1, x2, x3)
      v21 == VSub(x2, x1)
      v31 == VSub(x3, x1)
      xLen == Norm(v21)
      ux == <<NDiv(v21[1], xLen), NDiv(v21[2], xLen), NDiv(v21[3], xLen)>>
      uy == Cross(nn, ux)
  IN IF ComputeNormalLength(x1, x2, x3) = Zero
     THEN [ret |-> I(0), out |-> out, divisors |-> <<>>]
     ELSE [ret |-> I(1),
           out |-> <<<<Zero, Zero>>, <<xLen, Zero>>, <<NDot(v31, ux), NDot(v31, uy)>>>>,
           divisors |-> ComputeNormalDivisors(x1, x2, x3) \o <<xLen, xLen, xLen>>]

\* The threads at rest.
ThreadsIdle ==
  /\ thr = <<>>
  /\ frame = <<>>

\* A caller about to call BarycentricCoords on a 2D triangle and query point,
\* or ProjectTo2D on a 3D triangle.
TriInit ==
  /\ KernelIdle
  /\ ThreadsIdle
  /\ WindowIdle
  /\ \/ \E x \in Point2 : \E x1 \in Point2 : \E x2 \in Point2 : \E x3 \in Point2 :
          call = [fn |-> "none", args |-> <<x, x1, x2, x3>>, ret |-> Junk,
                  out |-> JunkVec, divisors |-> <<>>]
     \/ \E x1 \in Point : \E x2 \in Point : \E x3 \in Point :
          call = [fn |-> "none", args |-> <<x1, x2, x3>>, ret |-> Junk,
                  out |-> <<JunkVec2, JunkVec2, JunkVec2>>, divisors |-> <<>>]

\* The call record after function f returned r.
Called(f, r) ==
  [call EXCEPT !.fn = f, !.ret = r.ret, !.out = r.out, !.divisors = r.divisors]

CallBarycentricCoords ==
  /\ call.fn = "none"
  /\ Len(call.args) = 4
  /\ call' = Called("BarycentricCoords",
                    BarycentricCoords(call.args[1], call.args[2], call.args[3],
                                      call.args[4], call.out))
  /\ UNCHANGED <<kvars, thr, frame, win, env>>

CallProjectTo2D ==
  /\ call.fn = "none"
  /\ Len(call.args) = 3
  /\ call' = Called("ProjectTo2D",
                    ProjectTo2D(call.args[1], call.args[2], call.args[3], call.out))
  /\ UNCHANGED <<kvars, thr, frame, win, env>>

TriNext ==
  \/ CallBarycentricCoords
  \/ CallProjectTo2D

TriSpec == TriInit /\ [][TriNext]_vars

\* ----- the claims' vocabulary for 2D triangles

\* Twice the signed area of the 2D triangle a, b, c, in integer arithmetic.
Orient(a, b, c) ==
  (b[1].p - a[1].p) * (c[2].p - a[2].p) - (c[1].p - a[1].p) * (b[2].p - a[2].p)

\* The sides of x relative to the three edges, each oriented as the triangle.
Sides(x, x1, x2, x3) ==
  LET o == Sign(Orient(x1, x2, x3))
  IN <<o * Orient(x2, x3, x), o * Orient(x3, x1, x), o * Orient(x1, x2, x)>>

InClosedTriangle(x, x1, x2, x3) == \A i \in 1..3 : Sides(x, x1, x2, x3)[i] >= 0

StrictlyInside(x, x1, x2, x3) == \A i \in 1..3 : Sides(x, x1, x2, x3)[i] > 0

OnVertex(x, x1, x2, x3) == x \in {x1, x2, x3}

OnEdge(x, x1, x2, x3) ==
  /\ InClosedTriangle(x, x1, x2, x3)
  /\ ~StrictlyInside(x, x1, x2, x3)
  /\ ~OnVertex(x, x1, x2, x3)

\* The sign of a double.
NSign(x) == Sign(x.p)

\* x <= y, for doubles whose radicals agree.
NLeq(x, y) == NSign(NSub(y, x)) >= 0

\* The number of zeros among the weights b.
Zeros(b) == Cardinality({i \in 1..3 : b[i] = Zero})

\* C12: for every non-degenerate 2D triangle x1, x2, x3 and every query point
\* x, BarycentricCoords returns 1 and three weights whose sum is exactly 1, the
\* third being 1 - b0 - b1; all three weights lie in [0,1] exactly when x lies
\* in the closed triangle; strictly inside all are positive, on an edge exactly
\* one is zero, on a vertex two are zero and the third is 1.
C12_BarycentricWeights ==
  (call.fn = "BarycentricCoords" /\ Orient(call.args[2], call.args[3], call.args[4]) # 0) =>
    LET x == call.args[1]
        x1 == call.args[2]
        x2 == call.args[3]
        x3 == call.args[4]
        b == call.out
    IN /\ call.ret = I(1)
       /\ NAdd(NAdd(b[1], b[2]), b[3]) = I(1)
       /\ b[3] = NSub(NSub(I(1), b[1]), b[2])
       /\ (\A i \in 1..3 : NLeq(Zero, b[i]) /\ NLeq(b[i], I(1))) <=> InClosedTriangle(x, x1, x2, x3)
       /\ StrictlyInside(x, x1, x2, x3) => \A i \in 1..3 : NSign(b[i]) > 0
       /\ OnEdge(x, x1, x2, x3) => Zeros(b) = 1
       /\ OnVertex(x, x1, x2, x3) => Zeros(b) = 2 /\ \E i \in 1..3 : b[i] = I(1)
       /\ \A k \in 1..2 :
            x[k] = NAdd(NAdd(NMul(b[1], x1[k]), NMul(b[2], x2[k])), NMul(b[3], x3[k]))

\* BarycentricCoords returned three positive weights for a query point strictly
\* inside a triangle.
C12_Witness ==
  /\ call.fn = "BarycentricCoords"
  /\ StrictlyInside(call.args[1], call.args[2], call.args[3], call.args[4])
  /\ \A i \in 1..3 : NSign(call.out[i]) > 0

\* The triangle of the call is degenerate: its vertices lie on one line.
Degenerate ==
  IF Len(call.args) = 4
  THEN Orient(call.args[2], call.args[3], call.args[4]) = 0
  ELSE Collinear(call.args[1], call.args[2], call.args[3])

\* C13: BarycentricCoords and ProjectTo2D return 0 whenever the triangle is
\* degenerate (zero area, p1 = p2 = p3 included) and 1 otherwise; they divide by
\* no zero determinant or length, and a failing call executes no division.
C13_DegenerateTriangleFails ==
  call.fn \in {"BarycentricCoords", "ProjectTo2D"} =>
    /\ Degenerate => call.ret = I(0) /\ call.divisors = <<>>
    /\ ~Degenerate => call.ret = I(1)
    /\ \A i \in 1..Len(call.divisors) : call.divisors[i] # Zero

\* ProjectTo2D failed on three distinct collinear vertices.
C13_Witness ==
  /\ call.fn = "ProjectTo2D"
  /\ Degenerate
  /\ Cardinality({call.args[1], call.args[2], call.args[3]}) = 3
  /\ call.ret = I(0)

\* --------------------------- vtkLine: EvaluatePosition, DistanceToLine

\* x < y, for doubles whose radicals agree.
NLess(x, y) == NSign(NSub(y, x)) > 0

VAdd(a, b) == <<NAdd(a[1], b[1]), NAdd(a[2], b[2]), NAdd(a[3], b[3])>>

VScale(s, a) == <<NMul(s, a[1]), NMul(s, a[2]), NMul(s, a[3])>>

\* The output arguments of the vtkLine functions before a call wrote them.
NoLineOut ==
  [closestPoint |-> JunkVec, t |-> Junk, dist2 |-> Junk, subId |-> Junk,
   pcoords |-> JunkVec, weights |-> <<Junk, Junk>>]

\* Mutant: t clamped into [0,1] before it is reported.
DistanceToLine_ClampsT(x, p1, p2, out) ==
  LET p21 == VSub(p2, p1)
      num == NDot(p21, VSub(x, p1))
      denom == NDot(p21, p21)
      t == IF denom = Zero THEN Zero ELSE NDiv(num, denom)
      tc == IF NLess(t, Zero) THEN Zero ELSE IF NLess(I(1), t) THEN I(1) ELSE t
      closest == VAdd(p1, VScale(tc, p21))
      d == VSub(closest, x)
  IN [ret |-> NDot(d, d),
      out |-> [out EXCEPT !.t = tc, !.closestPoint = closest],
      divisors |-> IF denom = Zero THEN <<>> ELSE <<denom>>]

\* vtkLine::DistanceToLine(x, p1, p2, t, closestPoint): the parameter t of the
\* projection of x on the line through p1, p2, not clamped; the closest point
\* of the finite segment (p1 below t = 0, p2 above t = 1); the squared distance
\* from x to that point.  A segment of zero length is the point p1, t = 0.
DistanceToLine(x, p1, p2, out) ==
  LET p21 == VSub(p2, p1)
      num == NDot(p21, VSub(x, p1))
      denom == NDot(p21, p21)
      t == IF denom = Zero THEN Zero ELSE NDiv(num, denom)
      closest == IF denom = Zero \/ NLess(t, Zero) THEN p1
                 ELSE IF NLess(I(1), t) THEN p2
                 ELSE VAdd(p1, VScale(t, p21))
      d == VSub(closest, x)
  IN [ret |-> NDot(d, d),
      out |-> [out EXCEPT !.t = t, !.closestPoint = closest],
      divisors |-> IF denom = Zero THEN <<>> ELSE <<denom>>]

\* vtkLine::DistanceToLine(x, p1, p2): the squared distance from x to the
\* infinite line through p1, p2; to p1 when p1 = p2.
DistanceToLineInfinite(x, p1, p2, out) ==
  LET np1 == VSub(x, p1)
      p1p2 == VSub(p1, p2)
      den == Norm(p1p2)
      u == <<NDiv(p1p2[1], den), NDiv(p1p2[2], den), NDiv(p1p2[3], den)>>
      proj == NDot(np1, u)
  IN IF den # Zero
     THEN [ret |-> NSub(NDot(np1, np1), NMul(proj, proj)), out |-> out,
           divisors |-> <<den, den, den>>]
     ELSE [ret |-> NDot(np1, np1), out |-> out, divisors |-> <<>>]

\* Mutant: the closest point taken on the infinite line, not clamped.
EvaluatePosition_NoClamp(x, p1, p2, out) ==
  LET p21 == VSub(p2, p1)
      r == DistanceToLine(x, p1, p2, out)
      t == r.out.t
      closest == VAdd(p1, VScale(t, p21))
      d == VSub(closest, x)
  IN [ret |-> IF NLess(t, Zero) \/ NLess(I(1), t) THEN I(0) ELSE I(1),
      out |-> [out EXCEPT !.closestPoint = closest,
                          !.subId = I(0),
                          !.pcoords = <<t, Zero, Zero>>,
                          !.dist2 = NDot(d, d),
                          !.weights = <<NSub(I(1), t), t>>],
      divisors |-> r.divisors]

\* vtkLine::EvaluatePosition on the segment p1, p2: the projection of
\* DistanceToLine, the closest point clamped to the segment, dist2 to that
\* point, weights 1 - t and t; returns 1 when t is in [0,1] and 0 beyond an
\* endpoint.
EvaluatePosition(x, p1, p2, out) ==
  LET r == DistanceToLine(x, p1, p2, out)
      t == r.out.t
  IN [ret |-> IF NLess(t, Zero) \/ NLess(I(1), t) THEN I(0) ELSE I(1),
      out |-> [out EXCEPT !.closestPoint = r.out.closestPoint,
                          !.subId = I(0),
                          !.pcoords = <<t, Zero, Zero>>,
                          !.dist2 = r.ret,
                          !.weights = <<NSub(I(1), t), t>>],
      divisors |-> r.divisors]

\* A caller about to call a vtkLine function on a point x and a segment p1, p2.
LineInit ==
  /\ KernelIdle
  /\ ThreadsIdle
  /\ WindowIdle
  /\ \E x \in Point : \E p1 \in Point : \E p2 \in Point :
       call = [fn |-> "none", args |-> <<x, p1, p2>>, ret |-> Junk,
               out |-> NoLineOut, divisors |-> <<>>]

CallEvaluatePosition ==
  /\ call.fn = "none"
  /\ call' = Called("EvaluatePosition",
                    EvaluatePosition(call.args[1], call.args[2], call.args[3], call.out))
  /\ UNCHANGED <<kvars, thr, frame, win, env>>

CallDistanceToLine ==
  /\ call.fn = "none"
  /\ call' = Called("DistanceToLine",
                    DistanceToLine(call.args[1], call.args[2], call.args[3], call.out))
  /\ UNCHANGED <<kvars, thr, frame, win, env>>

CallDistanceToLineInfinite ==
  /\ call.fn = "none"
  /\ call' = Called("DistanceToLineInfinite",
                    DistanceToLineInfinite(call.args[1], call.args[2], call.args[3], call.out))
  /\ UNCHANGED <<kvars, thr, frame, win, env>>

LineNext ==
  \/ CallEvaluatePosition
  \/ CallDistanceToLine
  \/ CallDistanceToLineInfinite

LineSpec == LineInit /\ [][LineNext]_vars

\* ----- the claims' vocabulary for segments

\* The number of equal parts a segment is cut into for sampling.
Samples == 4

\* y lies on the finite segment p1, p2.
OnSegment(y, p1, p2) ==
  LET p21 == VSub(p2, p1)
      d == VSub(y, p1)
  IN /\ Cross(d, p21) = ZeroVec
     /\ NLeq(Zero, NDot(d, p21))
     /\ NLeq(NDot(d, p21), NDot(p21, p21))

\* The squared distance between two points.
Dist2(a, b) == NDot(VSub(a, b), VSub(a, b))

\* The point p1 + (k / Samples) (p2 - p1).
SamplePoint(k, p1, p2) == VAdd(p1, VScale(Mk(k, Samples, 1), VSub(p2, p1)))

\* y is a point of the segment p1, p2 closest to x: no point of the segment
\* lies from y in the direction of x.
ClosestOnSegment(y, x, p1, p2) ==
  /\ OnSegment(y, p1, p2)
  /\ NLeq(NDot(VSub(x, y), VSub(p1, y)), Zero)
  /\ NLeq(NDot(VSub(x, y), VSub(p2, y)), Zero)

\* C14: for every segment p1, p2 and point x, vtkLine::EvaluatePosition writes
\* a closest point that lies on the finite segment, and a dist2 that is the
\* minimum over t in [0,1] of the squared distance from x to p1 + t (p2 - p1);
\* when x projects beyond an endpoint the closest point is that endpoint and
\* the call returns 0 (outside), and it never returns a failure code.
C14_EvaluatePositionClamps ==
  call.fn = "EvaluatePosition" =>
    LET x == call.args[1]
        p1 == call.args[2]
        p2 == call.args[3]
        cp == call.out.closestPoint
        p21 == VSub(p2, p1)
        along == NDot(VSub(x, p1), p21)
    IN /\ ClosestOnSegment(cp, x, p1, p2)
       /\ call.out.dist2 = Dist2(x, cp)
       /\ \A k \in 0..Samples : NLeq(call.out.dist2, Dist2(x, SamplePoint(k, p1, p2)))
       /\ NLess(along, Zero) => cp = p1 /\ call.ret = I(0)
       /\ NLess(NDot(p21, p21), along) => cp = p2 /\ call.ret = I(0)
       /\ (NLeq(Zero, along) /\ NLeq(along, NDot(p21, p21))) => call.ret = I(1)
       /\ call.ret \in {I(0), I(1)}

\* EvaluatePosition returned for a point that projects beyond p2 of a segment
\* of non-zero length, off the line of the segment.
C14_Witness ==
  /\ call.fn = "EvaluatePosition"
  /\ call.args[2] # call.args[3]
  /\ NLess(I(1), call.out.pcoords[1])
  /\ call.out.closestPoint = call.args[3]
  /\ call.ret = I(0)
  /\ Cross(VSub(call.args[1], call.args[2]), VSub(call.args[3], call.args[2])) # ZeroVec

\* C15: DistanceToLine(x, p1, p2, t, closestPoint) reports the parameter t of
\* the projection of x on the infinite line, which is below 0 or above 1 when x
\* projects beyond an endpoint, while the closest point it writes lies on the
\* finite segment; the overload without t returns the squared distance from x
\* to the infinite line through p1, p2.
C15_DistanceToLineUnconstrained ==
  LET x == call.args[1]
      p1 == call.args[2]
      p2 == call.args[3]
      p21 == VSub(p2, p1)
      along == NDot(VSub(x, p1), p21)
      len2 == NDot(p21, p21)
  IN /\ call.fn = "DistanceToLine" =>
          /\ NMul(call.out.t, len2) = along
          /\ NLess(along, Zero) => NLess(call.out.t, Zero)
          /\ NLess(len2, along) => NLess(I(1), call.out.t)
          /\ ClosestOnSegment(call.out.closestPoint, x, p1, p2)
          /\ call.ret = Dist2(x, call.out.closestPoint)
     /\ (call.fn = "DistanceToLineInfinite" /\ p1 # p2) =>
          NMul(call.ret, len2) = NDot(Cross(VSub(x, p1), p21), Cross(VSub(x, p1), p21))
     /\ (call.fn = "DistanceToLineInfinite" /\ p1 = p2) => call.ret = Dist2(x, p1)

\* DistanceToLine reported a t above 1 and wrote the endpoint p2.
C15_Witness ==
  /\ call.fn = "DistanceToLine"
  /\ NLess(I(1), call.out.t)
  /\ call.out.closestPoint = call.args[3]
  /\ call.args[2] # call.args[3]

\* ------------- vtkLine: DistanceBetweenLineSegments, Intersection

\* The output arguments of the two-segment functions before a call wrote them.
NoSegOut ==
  [closestPt1 |-> JunkVec, closestPt2 |-> JunkVec, t1 |-> Junk, t2 |-> Junk,
   u |-> Junk, v |-> Junk]

\* Mutant: the parameters of the closest approach of the infinite lines, not
\* clamped into the unit square.
DistanceBetweenLineSegments_NoClamp(l0, l1, m0, m1, out) ==
  LET u == VSub(l1, l0)
      v == VSub(m1, m0)
      w == VSub(l0, m0)
      a == NDot(u, u)
      b == NDot(u, v)
      c == NDot(v, v)
      d == NDot(u, w)
      e == NDot(v, w)
      D == NSub(NMul(a, c), NMul(b, b))
      t1 == IF D = Zero THEN Zero ELSE NDiv(NSub(NMul(b, e), NMul(c, d)), D)
      t2 == IF D = Zero THEN (IF c = Zero THEN Zero ELSE NDiv(e, c))
            ELSE NDiv(NSub(NMul(a, e), NMul(b, d)), D)
      c1 == VAdd(l0, VScale(t1, u))
      c2 == VAdd(m0, VScale(t2, v))
  IN [ret |-> NDot(VSub(c1, c2), VSub(c1, c2)),
      out |-> [out EXCEPT !.closestPt1 = c1, !.closestPt2 = c2, !.t1 = t1, !.t2 = t2],
      divisors |-> <<>>]

\* DistanceBetweenLineSegments, first step: the parameters of the closest
\* approach of the two lines as numerator and denominator, sN / sD and
\* tN / tD, with s already clamped into [0,1] and t re-solved for it.
ClosestApproachOfLines(a, b, c, d, e) ==
  LET D == NSub(NMul(a, c), NMul(b, b))
      sN0 == NSub(NMul(b, e), NMul(c, d))
      tN0 == NSub(NMul(a, e), NMul(b, d))
  IN IF D = Zero THEN [sN |-> Zero, sD |-> I(1), tN |-> e, tD |-> c]
     ELSE IF NLess(sN0, Zero) THEN [sN |-> Zero, sD |-> D, tN |-> e, tD |-> c]
     ELSE IF NLess(D, sN0) THEN [sN |-> D, sD |-> D, tN |-> NAdd(e, b), tD |-> c]
     ELSE [sN |-> sN0, sD |-> D, tN |-> tN0, tD |-> D]

\* DistanceBetweenLineSegments, second step: t clamped into [0,1] and s
\* re-solved on that boundary and clamped in turn; md is -d, mdb is -d + b.
ClampOntoSegments(first, a, md, mdb) ==
  IF NLess(first.tN, Zero)
  THEN IF NLess(md, Zero) THEN [first EXCEPT !.tN = Zero, !.sN = Zero]
       ELSE IF NLess(a, md) THEN [first EXCEPT !.tN = Zero, !.sN = first.sD]
       ELSE [first EXCEPT !.tN = Zero, !.sN = md, !.sD = a]
  ELSE IF NLess(first.tD, first.tN)
  THEN IF NLess(mdb, Zero) THEN [first EXCEPT !.tN = first.tD, !.sN = Zero]
       ELSE IF NLess(a, mdb) THEN [first EXCEPT !.tN = first.tD, !.sN = first.sD]
       ELSE [first EXCEPT !.tN = first.tD, !.sN = mdb, !.sD = a]
  ELSE first

\* DistanceBetweenLineSegments, last step: the divisions, the two closest
\* points and the squared distance between them.
ClosestPointsAt(second, l0, u, m0, v, out) ==
  LET t1 == IF second.sN = Zero THEN Zero ELSE NDiv(second.sN, second.sD)
      t2 == IF second.tN = Zero THEN Zero ELSE NDiv(second.tN, second.tD)
      c1 == VAdd(l0, VScale(t1, u))
      c2 == VAdd(m0, VScale(t2, v))
  IN [ret |-> NDot(VSub(c1, c2), VSub(c1, c2)),
      out |-> [out EXCEPT !.closestPt1 = c1, !.closestPt2 = c2, !.t1 = t1, !.t2 = t2],
      divisors |-> (IF second.sN = Zero THEN <<>> ELSE <<second.sD>>)
                   \o (IF second.tN = Zero THEN <<>> ELSE <<second.tD>>)]

\* vtkLine::DistanceBetweenLineSegments: the closest approach of the lines
\* from the 2x2 system of the dot products; a parameter that leaves [0,1] is
\* clamped and the other re-solved on that boundary and clamped in turn.
DistanceBetweenLineSegments(l0, l1, m0, m1, out) ==
  LET u == VSub(l1, l0)
      v == VSub(m1, m0)
      w == VSub(l0, m0)
      a == NDot(u, u)
      b == NDot(u, v)
      d == NDot(u, w)
  IN ClosestPointsAt(
       ClampOntoSegments(ClosestApproachOfLines(a, b, NDot(v, v), d, NDot(v, w)),
                         a, NNeg(d), NAdd(NNeg(d), b)),
       l0, u, m0, v, out)

\* The three return codes of vtkLine::Intersection.
IntersectionCodes == {"NoIntersection", "YesIntersection", "OnLine"}

\* Mutant: u and v written to each other's place.
Intersection_SwappedUV(p1, p2, x1, x2, out) ==
  LET a21 == VSub(p2, p1)
      b21 == VSub(x2, x1)
      b1a1 == VSub(x1, p1)
      A11 == NDot(a21, a21)
      A12 == NNeg(NDot(a21, b21))
      A22 == NDot(b21, b21)
      c1 == NDot(a21, b1a1)
      c2 == NNeg(NDot(b21, b1a1))
      det == NSub(NMul(A11, A22), NMul(A12, A12))
      u == NDiv(NSub(NMul(c1, A22), NMul(A12, c2)), det)
      v == NDiv(NSub(NMul(A11, c2), NMul(A12, c1)), det)
  IN IF det = Zero
     THEN [ret |-> "OnLine", out |-> out, divisors |-> <<>>]
     ELSE [ret |-> IF NLeq(Zero, u) /\ NLeq(u, I(1)) /\ NLeq(Zero, v) /\ NLeq(v, I(1))
                   THEN "YesIntersection" ELSE "NoIntersection",
           out |-> [out EXCEPT !.u = v, !.v = u],
           divisors |-> <<det, det>>]

\* vtkLine::Intersection: u and v of the closest approach of the two lines,
\* from the least-squares 2x2 system, which are the parameters at which the
\* projections onto the plane perpendicular to the cross product meet;
\* "OnLine" when the system is singular (parallel lines, a zero-length segment).
Intersection(p1, p2, x1, x2, out) ==
  LET a21 == VSub(p2, p1)
      b21 == VSub(x2, x1)
      b1a1 == VSub(x1, p1)
      A11 == NDot(a21, a21)
      A12 == NNeg(NDot(a21, b21))
      A22 == NDot(b21, b21)
      c1 == NDot(a21, b1a1)
      c2 == NNeg(NDot(b21, b1a1))
      det == NSub(NMul(A11, A22), NMul(A12, A12))
      u == NDiv(NSub(NMul(c1, A22), NMul(A12, c2)), det)
      v == NDiv(NSub(NMul(A11, c2), NMul(A12, c1)), det)
  IN IF det = Zero
     THEN [ret |-> "OnLine", out |-> out, divisors |-> <<>>]
     ELSE [ret |-> IF NLeq(Zero, u) /\ NLeq(u, I(1)) /\ NLeq(Zero, v) /\ NLeq(v, I(1))
                   THEN "YesIntersection" ELSE "NoIntersection",
           out |-> [out EXCEPT !.u = u, !.v = v],
           divisors |-> <<det, det>>]

\* A caller about to call a two-segment function on the segment from the
\* origin to l1 and the segment m0, m1.
SegInit ==
  /\ KernelIdle
  /\ ThreadsIdle
  /\ WindowIdle
  /\ \E l1 \in Point : \E m0 \in Point : \E m1 \in Point :
       call = [fn |-> "none", args |-> <<ZeroVec, l1, m0, m1>>, ret |-> Junk,
               out |-> NoSegOut, divisors |-> <<>>]

CallDistanceBetweenLineSegments ==
  /\ call.fn = "none"
  /\ call' = Called("DistanceBetweenLineSegments",
                    DistanceBetweenLineSegments(call.args[1], call.args[2], call.args[3],
                                                call.args[4], call.out))
  /\ UNCHANGED <<kvars, thr, frame, win, env>>

CallIntersection ==
  /\ call.fn = "none"
  /\ call' = Called("Intersection",
                    Intersection(call.args[1], call.args[2], call.args[3], call.args[4],
                                 call.out))
  /\ UNCHANGED <<kvars, thr, frame, win, env>>

SegNext ==
  \/ CallDistanceBetweenLineSegments
  \/ CallIntersection

SegSpec == SegInit /\ [][SegNext]_vars

\* ----- the claims' vocabulary for two segments

\* The lines through l0, l1 and m0, m1 have independent directions.
NonParallel(l0, l1, m0, m1) == Cross(VSub(l1, l0), VSub(m1, m0)) # ZeroVec

\* The non-parallel segments l0, l1 and m0, m1 have a point in common: the
\* lines are coplanar and meet at parameters within [0,1] on both.
Cross3(l0, l1, m0, m1) ==
  LET u == VSub(l1, l0)
      v == VSub(m1, m0)
      g == VSub(m0, l0)
      k == Cross(u, v)
      k2 == NDot(k, k)
      s == NDiv(NDot(Cross(g, v), k), k2)
      t == NDiv(NDot(Cross(g, u), k), k2)
  IN /\ NonParallel(l0, l1, m0, m1)
     /\ NDot(g, k) = Zero
     /\ NLeq(Zero, s) /\ NLeq(s, I(1))
     /\ NLeq(Zero, t) /\ NLeq(t, I(1))
     /\ VAdd(l0, VScale(s, u)) = VAdd(m0, VScale(t, v))

\* C16: for every pair of finite segments, DistanceBetweenLineSegments writes
\* parameters t1, t2 in [0,1] and closest points on the respective segments at
\* those parameters, and returns their squared distance; for non-parallel
\* segments each is the nearest point of its segment to the other; for two
\* segments that cross it returns 0, and for two non-parallel segments without
\* a common point it returns a positive value.
C16_SegmentDistance ==
  call.fn = "DistanceBetweenLineSegments" =>
    LET l0 == call.args[1]
        l1 == call.args[2]
        m0 == call.args[3]
        m1 == call.args[4]
        o == call.out
    IN /\ NLeq(Zero, o.t1) /\ NLeq(o.t1, I(1))
       /\ NLeq(Zero, o.t2) /\ NLeq(o.t2, I(1))
       /\ o.closestPt1 = VAdd(l0, VScale(o.t1, VSub(l1, l0)))
       /\ o.closestPt2 = VAdd(m0, VScale(o.t2, VSub(m1, m0)))
       /\ OnSegment(o.closestPt1, l0, l1)
       /\ OnSegment(o.closestPt2, m0, m1)
       /\ NonParallel(l0, l1, m0, m1) =>
            /\ ClosestOnSegment(o.closestPt1, o.closestPt2, l0, l1)
            /\ ClosestOnSegment(o.closestPt2, o.closestPt1, m0, m1)
       /\ call.ret = Dist2(o.closestPt1, o.closestPt2)
       /\ Cross3(l0, l1, m0, m1) => call.ret = Zero
       /\ (NonParallel(l0, l1, m0, m1) /\ ~Cross3(l0, l1, m0, m1)) => NLess(Zero, call.ret)

\* DistanceBetweenLineSegments returned 0 for two segments that cross away
\* from their endpoints.
C16_Witness ==
  /\ call.fn = "DistanceBetweenLineSegments"
  /\ Cross3(call.args[1], call.args[2], call.args[3], call.args[4])
  /\ call.ret = Zero
  /\ NLess(Zero, call.out.t1) /\ NLess(call.out.t1, I(1))
  /\ NLess(Zero, call.out.t2) /\ NLess(call.out.t2, I(1))

\* C17: vtkLine::Intersection returns one of exactly three codes; when the two
\* segments cross at a point within [0,1] on both it returns "intersection
\* found" with u and v the parameters of that point on each segment; for the X
\* of (0,0,0)-(1,1,0) and (0,1,0)-(1,0,0), u = v = 0.5.
C17_IntersectionCodes ==
  call.fn = "Intersection" =>
    LET p1 == call.args[1]
        p2 == call.args[2]
        x1 == call.args[3]
        x2 == call.args[4]
        o == call.out
    IN /\ call.ret \in IntersectionCodes
       /\ Cross3(p1, p2, x1, x2) =>
            /\ call.ret = "YesIntersection"
            /\ VAdd(p1, VScale(o.u, VSub(p2, p1))) = VAdd(x1, VScale(o.v, VSub(x2, x1)))
            /\ NLeq(Zero, o.u) /\ NLeq(o.u, I(1))
            /\ NLeq(Zero, o.v) /\ NLeq(o.v, I(1))
       /\ call.args = <<Vec(0, 0, 0), Vec(1, 1, 0), Vec(0, 1, 0), Vec(1, 0, 0)>> =>
            call.ret = "YesIntersection" /\ o.u = Mk(1, 2, 1) /\ o.v = Mk(1, 2, 1)
       /\ ~NonParallel(p1, p2, x1, x2) => call.ret = "OnLine" /\ o = NoSegOut

\* Intersection returned for two crossing segments with different parameters
\* on the two segments.
C17_Witness ==
  /\ call.fn = "Intersection"
  /\ Cross3(call.args[1], call.args[2], call.args[3], call.args[4])
  /\ call.ret = "YesIntersection"
  /\ call.out.u # call.out.v
  /\ NLess(Zero, call.out.u) /\ NLess(call.out.u, I(1))

\* ------------------- InterpolateFunctions and InterpolateDerivs

\* vtkTriangle::InterpolationFunctions: sf after the call.
vtkTriangle_InterpolationFunctions(pc, sf) ==
  <<NSub(NSub(I(1), pc[1]), pc[2]), pc[1], pc[2]>>

\* vtkTriangle::InterpolationDerivs: derivs after the call, the r-derivatives
\* of the three functions and then their s-derivatives.
vtkTriangle_InterpolationDerivs(pc, derivs) ==
  <<I(-1), I(1), I(0), I(-1), I(0), I(1)>>

\* vtkLine::InterpolationFunctions: weights after the call.
vtkLine_InterpolationFunctions(pc, weights) == <<NSub(I(1), pc[1]), pc[1]>>

\* vtkLine::InterpolationDerivs: derivs after the call.
vtkLine_InterpolationDerivs(pc, derivs) == <<I(-1), I(1)>>

\* Mutant: an implementation of its own, with r and s exchanged.
vtkTriangle_InterpolateFunctions_Own(pc, sf) ==
  <<NSub(NSub(I(1), pc[1]), pc[2]), pc[2], pc[1]>>

vtkTriangle_InterpolateFunctions(pc, sf) == vtkTriangle_InterpolationFunctions(pc, sf)

vtkTriangle_InterpolateDerivs(pc, derivs) == vtkTriangle_InterpolationDerivs(pc, derivs)

vtkLine_InterpolateFunctions(pc, weights) == vtkLine_InterpolationFunctions(pc, weights)

vtkLine_InterpolateDerivs(pc, derivs) == vtkLine_InterpolationDerivs(pc, derivs)

\* An array of k doubles no call has written.
JunkArray(k) == [i \in 1..k |-> Junk]

\* The lengths of the arrays sf (weights) and derivs of a class.
ArrayLengths(cls) ==
  IF cls = "vtkTriangle" THEN [sf |-> 3, derivs |-> 6] ELSE [sf |-> 2, derivs |-> 2]

\* Parametric coordinates: the halves from -1/2 to (MaxX + 1)/2.
ParamValues == {Mk(k, 2, 1) : k \in -1..(MaxX + 1)}

\* A caller holding pcoords, and for each entry point an sf and a derivs array
\* of their own: `member' for InterpolateFunctions and InterpolateDerivs,
\* `static' for InterpolationFunctions and InterpolationDerivs.
InterpInit ==
  /\ KernelIdle
  /\ ThreadsIdle
  /\ WindowIdle
  /\ \E cls \in {"vtkTriangle", "vtkLine"} :
     \E r \in ParamValues : \E s \in ParamValues : \E t \in ParamValues :
       LET arrays == [sf |-> JunkArray(ArrayLengths(cls).sf),
                      derivs |-> JunkArray(ArrayLengths(cls).derivs)]
       IN call = [fn |-> "none", cls |-> cls, args |-> <<r, s, t>>, done |-> {},
                  out |-> [member |-> arrays, static |-> arrays]]

CallInterpolateFunctions ==
  /\ "InterpolateFunctions" \notin call.done
  /\ call' = [call EXCEPT
       !.fn = "InterpolateFunctions",
       !.done = @ \cup {"InterpolateFunctions"},
       !.out.member.sf = IF call.cls = "vtkTriangle"
                         THEN vtkTriangle_InterpolateFunctions(call.args, @)
                         ELSE vtkLine_InterpolateFunctions(call.args, @)]
  /\ UNCHANGED <<kvars, thr, frame, win, env>>

CallInterpolateDerivs ==
  /\ "InterpolateDerivs" \notin call.done
  /\ call' = [call EXCEPT
       !.fn = "InterpolateDerivs",
       !.done = @ \cup {"InterpolateDerivs"},
       !.out.member.derivs = IF call.cls = "vtkTriangle"
                             THEN vtkTriangle_InterpolateDerivs(call.args, @)
                             ELSE vtkLine_InterpolateDerivs(call.args, @)]
  /\ UNCHANGED <<kvars, thr, frame, win, env>>

CallInterpolationFunctions ==
  /\ "InterpolationFunctions" \notin call.done
  /\ call' = [call EXCEPT
       !.fn = "InterpolationFunctions",
       !.done = @ \cup {"InterpolationFunctions"},
       !.out.static.sf = IF call.cls = "vtkTriangle"
                         THEN vtkTriangle_InterpolationFunctions(call.args, @)
                         ELSE vtkLine_InterpolationFunctions(call.args, @)]
  /\ UNCHANGED <<kvars, thr, frame, win, env>>

CallInterpolationDerivs ==
  /\ "InterpolationDerivs" \notin call.done
  /\ call' = [call EXCEPT
       !.fn = "InterpolationDerivs",
       !.done = @ \cup {"InterpolationDerivs"},
       !.out.static.derivs = IF call.cls = "vtkTriangle"
                             THEN vtkTriangle_InterpolationDerivs(call.args, @)
                             ELSE vtkLine_InterpolationDerivs(call.args, @)]
  /\ UNCHANGED <<kvars, thr, frame, win, env>>

InterpNext ==
  \/ CallInterpolateFunctions
  \/ CallInterpolateDerivs
  \/ CallInterpolationFunctions
  \/ CallInterpolationDerivs

InterpSpec == InterpInit /\ [][InterpNext]_vars

\* C18: the current and the deprecated interpolation entry points are one
\* implementation: for every pcoords, once InterpolateFunctions and
\* InterpolationFunctions of a class were both called their arrays are equal,
\* likewise InterpolateDerivs and InterpolationDerivs, and an array whose entry
\* point was not called holds what it held before.
C18_EntryPointsAgree ==
  (DOMAIN call = {"fn", "cls", "args", "done", "out"}) =>
    LET junk == [sf |-> JunkArray(ArrayLengths(call.cls).sf),
                 derivs |-> JunkArray(ArrayLengths(call.cls).derivs)]
    IN /\ {"InterpolateFunctions", "InterpolationFunctions"} \subseteq call.done =>
            call.out.member.sf = call.out.static.sf
       /\ {"InterpolateDerivs", "InterpolationDerivs"} \subseteq call.done =>
            call.out.member.derivs = call.out.static.derivs
       /\ "InterpolateFunctions" \notin call.done => call.out.member.sf = junk.sf
       /\ "InterpolateDerivs" \notin call.done => call.out.member.derivs = junk.derivs
       /\ "InterpolationFunctions" \notin call.done => call.out.static.sf = junk.sf
       /\ "InterpolationDerivs" \notin call.done => call.out.static.derivs = junk.derivs

\* vtkTriangle's InterpolateFunctions and InterpolationFunctions were both
\* called, with r different from s, and the derivs arrays are still untouched.
C18_Witness ==
  /\ call.fn # "none"
  /\ call.cls = "vtkTriangle"
  /\ call.done = {"InterpolateFunctions", "InterpolationFunctions"}
  /\ call.args[1] # call.args[2]
  /\ call.out.member.sf = call.out.static.sf
  /\ call.out.member.sf[2] = call.args[1]

\* ------------------------------------------- vtkCocoaRenderWindow

\* No object: a null pointer, a key absent from the CocoaManager dictionary.
Nil == "nil"

\* The objects an application can supply, and the ones CreateAWindow allocates.
AppWindow == "application NSWindow"
AppView == "application NSView"
AppParent == "application parent NSView"
VtkWindow == "NSWindow allocated by CreateAWindow"
VtkView == "NSView allocated by CreateAWindow"

\* The size and the position CreateAWindow gives a window that has none.
DefaultSize == 300
DefaultPosition == 50

\* Positions are in 0..MaxPos, sizes in 0..MaxSize, and the sides of the parent
\* view's frame in 0..MaxParent.
MaxPos == 1
MaxSize == 3
MaxParent == 3
\* The titles "Visualization Toolkit - Cocoa #k" are numbered up to MaxWindows.
MaxWindows == 2

\* The render window after its constructor, with the Size, Position and
\* FullScreen the application set.  count is the static title counter,
\* allocs the objects the last CreateAWindow allocated, and glAllocs the
\* pixel formats and contexts allocated since the last DestroyWindow.
NewRenderWindow(size, pos, full) ==
  [RootWindow |-> Nil, WindowId |-> Nil, ParentId |-> Nil,
   ContextId |-> Nil, PixelFormat |-> Nil, CocoaServer |-> Nil,
   WindowCreated |-> 0, ViewCreated |-> 0, OnScreenInitialized |-> 0, Mapped |-> 0,
   Size |-> size, Position |-> pos, FullScreen |-> full, ShowWindow |-> TRUE,
   WindowName |-> 0, count |-> 1, StereoCapableWindow |-> 0, ContextStack |-> <<>>,
   interactorSize |-> <<0, 0>>,
   activation |-> "default", visible |-> FALSE,
   allocs |-> <<>>, glAllocs |-> <<>>, windowRect |-> <<>>, viewFrame |-> <<>>,
   contextView |-> Nil, current |-> Nil, observing |-> {},
   attempts |-> <<>>, closed |-> {}, log |-> <<>>]

\* -convertRectFromBacking: a rectangle <<x, y, width, height>> in pixels, in
\* points at the given backing scale factor.
ConvertRectFromBacking(rect, scale) ==
  [i \in 1..4 |-> NDiv(rect[i], I(scale))]

\* The frame CreateAWindow gives a view it creates inside a parent view.
ParentViewFrame(Position, Size, parentSize, scale) ==
  LET parentHeight == I(parentSize[2])
      parentWidth == I(parentSize[1])
      viewRect == ConvertRectFromBacking(
                    <<I(Position[1]), I(Position[2]), I(Size[1]), I(Size[2])>>, scale)
      width0 == viewRect[3]
      height0 == viewRect[4]
      x0 == viewRect[1]
      y0 == NSub(NSub(parentHeight, height0), viewRect[2])
      x1 == IF NLess(NSub(parentWidth, I(1)), x0) THEN NSub(parentWidth, I(1)) ELSE x0
      y1 == IF NLess(NSub(parentHeight, I(1)), y0) THEN NSub(parentHeight, I(1)) ELSE y0
      x == IF NLess(x1, Zero) THEN Zero ELSE x1
      y == IF NLess(y1, Zero) THEN Zero ELSE y1
      width == IF NLess(parentWidth, NAdd(x, width0)) THEN NSub(parentWidth, x) ELSE width0
      height == IF NLess(parentWidth, NAdd(y, height0)) THEN NSub(parentHeight, y) ELSE height0
  IN <<x, y, width, height>>

\* Mutant: an NSWindow is allocated although the application set a ParentId.
CreateNSWindow_IgnoresParentId(w, e) ==
  IF w.RootWindow = Nil /\ w.WindowId = Nil
  THEN [w |-> [w EXCEPT !.RootWindow = VtkWindow, !.WindowCreated = 1,
                        !.allocs = Append(@, "NSWindow")],
        returned |-> FALSE]
  ELSE [w |-> w, returned |-> FALSE]

\* The first part of CreateAWindow: an NSWindow is allocated when none of
\* RootWindow, WindowId and ParentId is set.  returned tells that CreateAWindow
\* returned here, the allocation having failed.
CreateNSWindow(w, e) ==
  IF w.RootWindow = Nil /\ w.WindowId = Nil /\ w.ParentId = Nil
  THEN LET full == w.FullScreen /\ e.screen
           size == IF full THEN <<e.screenSize[1] * e.scale, e.screenSize[2] * e.scale>>
                   ELSE IF w.Size[1] + w.Size[2] = 0 THEN <<DefaultSize, DefaultSize>>
                   ELSE w.Size
           pos == IF ~full /\ w.Position[1] + w.Position[2] = 0
                  THEN <<DefaultPosition, DefaultPosition>>
                  ELSE w.Position
           rect == IF full THEN <<Zero, Zero, I(e.screenSize[1]), I(e.screenSize[2])>>
                   ELSE ConvertRectFromBacking(<<I(pos[1]), I(pos[2]), I(size[1]), I(size[2])>>,
                                               IF e.screen THEN e.scale ELSE 1)
           w1 == [w EXCEPT !.activation = "regular", !.Size = size, !.Position = pos]
       IN IF ~e.windowAllocated
          THEN [w |-> [w1 EXCEPT !.log = Append(@, "Could not create window, serious error!")],
                returned |-> TRUE]
          ELSE [w |-> [w1 EXCEPT !.RootWindow = VtkWindow,
                                 !.WindowCreated = 1,
                                 !.allocs = Append(@, "NSWindow"),
                                 !.windowRect = rect,
                                 !.visible = w.ShowWindow],
                returned |-> FALSE]
  ELSE [w |-> w, returned |-> FALSE]

\* The second part of CreateAWindow: a view is created when no WindowId is
\* set, inside the parent view if a ParentId is set and else as the content
\* view of the RootWindow.
CreateNSView(w, e) ==
  IF w.WindowId # Nil THEN w
  ELSE IF w.ParentId # Nil
  THEN [w EXCEPT !.viewFrame = ParentViewFrame(w.Position, w.Size, e.parentSize, e.scale),
                 !.allocs = Append(@, "NSView"),
                 !.WindowId = VtkView,
                 !.ViewCreated = 1]
  ELSE [w EXCEPT !.viewFrame = ConvertRectFromBacking(<<Zero, Zero, I(w.Size[1]), I(w.Size[2])>>,
                                                     e.scale),
                 !.allocs = Append(@, "NSView"),
                 !.WindowId = VtkView,
                 !.ViewCreated = 1]

\* The pixel-format attempts of CreateGLContext from the given profile and
\* renderer on: the attempts made, and the format obtained or Nil.
RECURSIVE PixelFormatAttempts(_, _, _, _)
PixelFormatAttempts(profile, hardware, formats, made) ==
  LET attempt == <<profile, hardware>>
  IN IF attempt \in formats THEN [made |-> Append(made, attempt), format |-> attempt, warned |-> FALSE]
     ELSE IF profile # "3.2 Core"
     THEN PixelFormatAttempts("3.2 Core", hardware, formats, Append(made, attempt))
     ELSE IF hardware = "accelerated"
     THEN PixelFormatAttempts(profile, "software", formats, Append(made, attempt))
     ELSE [made |-> Append(made, attempt), format |-> Nil, warned |-> TRUE]

\* CreateGLContext: a pixel format from the preferred profile downwards, and a
\* context when a format was obtained.
CreateGLContext(w, e) ==
  LET r == PixelFormatAttempts(e.preferred, "accelerated", e.formats, <<>>)
  IN [w EXCEPT !.attempts = r.made,
               !.log = IF r.warned
                       THEN Append(@, "No OpenGL context whatsoever could be created!")
                       ELSE @,
               !.PixelFormat = r.format,
               !.ContextId = IF r.format # Nil THEN "NSOpenGLContext" ELSE Nil,
               !.glAllocs = IF r.format # Nil
                            THEN @ \o <<"NSOpenGLPixelFormat", "NSOpenGLContext">>
                            ELSE @]

\* MakeCurrent: this window's context becomes the current one, if it has one.
MakeCurrent(w) == IF w.ContextId # Nil THEN [w EXCEPT !.current = w.ContextId] ELSE w

\* -startObservations: the notifications the vtkCocoaServer registers for.
StartObservations(w) ==
  (IF w.WindowCreated = 1 /\ w.RootWindow # Nil THEN {<<"windowWillClose", w.RootWindow>>} ELSE {})
  \cup (IF w.ViewCreated = 1 /\ w.WindowId # Nil THEN {<<"viewFrameDidChange", w.WindowId>>} ELSE {})

\* CreateAWindow from the creation of the GL context on.
FinishCreateAWindow(w, e) ==
  LET w1 == CreateGLContext(w, e)
      w2 == IF w1.WindowCreated = 1
            THEN [w1 EXCEPT !.WindowName = w1.count, !.count = @ + 1]
            ELSE w1
      w3 == IF w2.ContextId # Nil THEN [w2 EXCEPT !.contextView = w2.WindowId] ELSE w2
      w4 == [MakeCurrent(w3) EXCEPT !.Mapped = 1, !.CocoaServer = "vtkCocoaServer"]
  IN [w4 EXCEPT !.observing = @ \cup StartObservations(w4)]

CreateAWindow(w, e) ==
  LET r == CreateNSWindow([w EXCEPT !.allocs = <<>>], e)
  IN IF r.returned THEN r.w ELSE FinishCreateAWindow(CreateNSView(r.w, e), e)

\* Mutant: Initialize creates the window whether or not it is initialized.
Initialize_IgnoresFlag(w, e) ==
  LET w1 == CreateAWindow([w EXCEPT !.OnScreenInitialized = 1], e)
  IN IF w1.OnScreenInitialized = 1 /\ w1.Mapped = 1 /\ w1.ContextId # Nil
     THEN [w1 EXCEPT !.contextView = w1.WindowId]
     ELSE w1

\* Initialize: CreateAWindow unless already initialized, then the context is
\* attached to the view again.
Initialize(w, e) ==
  LET w1 == IF w.OnScreenInitialized = 0
            THEN CreateAWindow([w EXCEPT !.OnScreenInitialized = 1], e)
            ELSE w
  IN IF w1.OnScreenInitialized = 1 /\ w1.Mapped = 1 /\ w1.ContextId # Nil
     THEN [w1 EXCEPT !.contextView = w1.WindowId]
     ELSE w1

\* Mutant: DestroyWindow without its SetParentId(nullptr).
DestroyWindow_KeepsParentId(w) ==
  LET w1 == MakeCurrent(w)
      w2 == [w1 EXCEPT !.ContextId = Nil, !.PixelFormat = Nil,
                       !.observing = {},
                       !.CocoaServer = Nil]
      w3 == IF w2.WindowCreated = 1 /\ w2.RootWindow # Nil
            THEN [w2 EXCEPT !.closed = @ \cup {w2.RootWindow}, !.visible = FALSE]
            ELSE w2
  IN [w3 EXCEPT !.WindowId = Nil, !.RootWindow = Nil,
                !.WindowCreated = 0, !.ViewCreated = 0, !.Mapped = 0,
                !.glAllocs = <<>>]

\* DestroyWindow.  -stopObservations removes the registrations that
\* -startObservations would make now, and the vtkCocoaServer, which
\* SetCocoaServer(nullptr) releases, takes the remaining ones with it.
DestroyWindow(w) ==
  LET w1 == MakeCurrent(w)
      w2 == [w1 EXCEPT !.ContextId = Nil, !.PixelFormat = Nil,
                       !.observing = {},
                       !.CocoaServer = Nil]
      w3 == IF w2.WindowCreated = 1 /\ w2.RootWindow # Nil
            THEN [w2 EXCEPT !.closed = @ \cup {w2.RootWindow}, !.visible = FALSE]
            ELSE w2
  IN [w3 EXCEPT !.WindowId = Nil, !.ParentId = Nil, !.RootWindow = Nil,
                !.WindowCreated = 0, !.ViewCreated = 0, !.Mapped = 0,
                !.glAllocs = <<>>]

\* Finalize.
Finalize(w) ==
  IF w.OnScreenInitialized = 1 THEN DestroyWindow([w EXCEPT !.OnScreenInitialized = 0]) ELSE w

\* The kernel at rest.
GeometryIdle ==
  /\ KernelIdle
  /\ ThreadsIdle
  /\ call = [fn |-> "none"]

\* The pixel formats the system offers: all, the software renderer's only, none.
FormatChoices ==
  { {<<"4.1 Core", "accelerated">>, <<"3.2 Core", "accelerated">>, <<"3.2 Core", "software">>},
    {<<"3.2 Core", "software">>},
    {} }

\* The systems CreateAWindow runs on: with or without a main screen, with an
\* NSWindow allocation that succeeds or fails, at backing scale factor 2.
WinEnvs ==
  [screen : BOOLEAN, screenSize : {<<MaxSize + 1, MaxSize>>}, scale : {2},
   parentSize : {<<MaxParent, MaxParent>>}, windowAllocated : BOOLEAN,
   formats : FormatChoices, preferred : {"4.1 Core"}]

\* A render window just constructed.
WinInit ==
  /\ GeometryIdle
  /\ env \in WinEnvs
  /\ \E size \in {<<0, 0>>, <<MaxSize, 1>>} : \E full \in BOOLEAN :
       win = NewRenderWindow(size, <<0, 0>>, full)

SetRootWindow(arg) ==
  /\ win' = [win EXCEPT !.RootWindow = arg, !.log = <<>>]
  /\ UNCHANGED <<kvars, thr, frame, call, env>>

SetWindowId(arg) ==
  /\ win' = [win EXCEPT !.WindowId = arg, !.log = <<>>]
  /\ UNCHANGED <<kvars, thr, frame, call, env>>

SetParentId(arg) ==
  /\ win' = [win EXCEPT !.ParentId = arg, !.log = <<>>]
  /\ UNCHANGED <<kvars, thr, frame, call, env>>

CallInitialize ==
  /\ win.count <= MaxWindows
  /\ win' = Initialize([win EXCEPT !.log = <<>>], env)
  /\ UNCHANGED <<kvars, thr, frame, call, env>>

CallFinalize ==
  /\ win' = Finalize([win EXCEPT !.log = <<>>])
  /\ UNCHANGED <<kvars, thr, frame, call, env>>

WinNext ==
  \/ \E arg \in {Nil, AppWindow} : SetRootWindow(arg)
  \/ \E arg \in {Nil, AppView} : SetWindowId(arg)
  \/ \E arg \in {Nil, AppParent} : SetParentId(arg)
  \/ CallInitialize
  \/ CallFinalize

WinSpec == WinInit /\ [][WinNext]_vars

\* A step in which Initialize ran CreateAWindow.
RanCreateAWindow == win.OnScreenInitialized = 0 /\ win'.OnScreenInitialized = 1

\* The allocations of objects of class c by the last CreateAWindow.
Allocated(w, c) == Cardinality({i \in 1..Len(w.allocs) : w.allocs[i] = c})

\* C19: CreateAWindow allocates an NSWindow and sets WindowCreated only if at
\* entry none of RootWindow, WindowId and ParentId is set, and creates a view
\* and sets ViewCreated only if WindowId is not set; it allocates at most one
\* of each; a RootWindow or WindowId the application supplied is still the one
\* set afterwards, no second one is allocated, and WindowCreated, respectively
\* ViewCreated, is 0.
C19_CreatesOnlyWhatIsMissing ==
  [][RanCreateAWindow =>
       /\ Allocated(win', "NSWindow") <= 1 /\ Allocated(win', "NSView") <= 1
       /\ (Allocated(win', "NSWindow") = 1) <=> (win'.WindowCreated = 1)
       /\ (Allocated(win', "NSView") = 1) <=> (win'.ViewCreated = 1)
       /\ win'.WindowCreated = 1 =>
            win.RootWindow = Nil /\ win.WindowId = Nil /\ win.ParentId = Nil
       /\ win'.ViewCreated = 1 => win.WindowId = Nil
       /\ win.RootWindow # Nil =>
            win'.RootWindow = win.RootWindow /\ win'.WindowCreated = 0
       /\ win.WindowId # Nil =>
            /\ win'.WindowId = win.WindowId /\ win'.ViewCreated = 0
            /\ win'.WindowCreated = 0 /\ win'.allocs = <<>>
       /\ win.ParentId # Nil => win'.WindowCreated = 0 /\ win'.RootWindow = win.RootWindow
    ]_vars

\* Initialize has run on a render window with an application-supplied
\* RootWindow and no WindowId: a view was created in it, no NSWindow.
C19_Witness ==
  /\ win.OnScreenInitialized = 1
  /\ win.RootWindow = AppWindow
  /\ win.WindowId = VtkView
  /\ win.allocs = <<"NSView">>
  /\ win.WindowCreated = 0
  /\ win.ViewCreated = 1

\* The systems a view is created inside a parent view on: every size of the
\* parent's frame, at backing scale factors 1 and 2.
FrameEnvs ==
  [screen : {TRUE}, screenSize : {<<MaxSize + 1, MaxSize>>}, scale : {1, 2},
   parentSize : (0..MaxParent) \X (0..MaxParent), windowAllocated : {TRUE},
   formats : {{<<"3.2 Core", "accelerated">>}}, preferred : {"4.1 Core", "3.2 Core"}]

\* A render window on which the application set a ParentId, a Position and a
\* Size.
FrameInit ==
  /\ GeometryIdle
  /\ env \in FrameEnvs
  /\ \E size \in (0..MaxSize) \X (0..MaxSize) : \E pos \in (0..MaxPos) \X (0..MaxPos) :
       win = [NewRenderWindow(size, pos, FALSE) EXCEPT !.ParentId = AppParent]

FrameNext ==
  \/ CallInitialize
  \/ CallFinalize

FrameSpec == FrameInit /\ [][FrameNext]_vars

\* C20: when CreateAWindow creates a view inside a parent view, the frame it
\* gives the view lies inside the parent: 0 <= x, 0 <= y,
\* x + width <= parentWidth and y + height <= parentHeight.
C20_FrameInsideParent ==
  (win.ParentId # Nil /\ win.ViewCreated = 1) =>
    LET x == win.viewFrame[1]
        y == win.viewFrame[2]
        width == win.viewFrame[3]
        height == win.viewFrame[4]
    IN /\ NLeq(Zero, x)
       /\ NLeq(Zero, y)
       /\ NLeq(NAdd(x, width), I(env.parentSize[1]))
       /\ NLeq(NAdd(y, height), I(env.parentSize[2]))

\* ----- CreateGLContext, one pass of its loop at a time

\* The attribute list one pass of the loop builds.
PixelFormatAttribs(profileVersion, hardware, DoubleBuffer, StencilCapable) ==
  <<"NSOpenGLPFAOpenGLProfile", profileVersion, "NSOpenGLPFADepthSize", "32">>
  \o (IF DoubleBuffer THEN <<"NSOpenGLPFADoubleBuffer">> ELSE <<>>)
  \o (IF StencilCapable THEN <<"NSOpenGLPFAStencilSize", "8">> ELSE <<>>)
  \o <<hardware, "0">>

\* Mutant: the preferred profile falls back to the software renderer at once.
Fallback_SkipsAccelerated(profileVersion, hardware) ==
  IF profileVersion # "3.2 Core"
  THEN [profileVersion |-> "3.2 Core", hardware |-> "software", brk |-> FALSE]
  ELSE IF hardware = "accelerated"
  THEN [profileVersion |-> profileVersion, hardware |-> "software", brk |-> FALSE]
  ELSE [profileVersion |-> profileVersion, hardware |-> hardware, brk |-> TRUE]

\* What the loop does after an allocation that returned nil: the profile and
\* renderer of the next pass, or the break out of the loop.
Fallback(profileVersion, hardware) ==
  IF profileVersion # "3.2 Core"
  THEN [profileVersion |-> "3.2 Core", hardware |-> hardware, brk |-> FALSE]
  ELSE IF hardware = "accelerated"
  THEN [profileVersion |-> profileVersion, hardware |-> "software", brk |-> FALSE]
  ELSE [profileVersion |-> profileVersion, hardware |-> hardware, brk |-> TRUE]

\* The profiles and renderers a system can have pixel formats for.
AllFormats == {"4.1 Core", "3.2 Core"} \X {"accelerated", "software"}

\* The systems CreateGLContext runs on: every set of available pixel formats,
\* both deployment targets, with and without double buffering and stencil.
GLEnvs ==
  [screen : {TRUE}, screenSize : {<<MaxSize + 1, MaxSize>>}, scale : {2},
   parentSize : {<<MaxParent, MaxParent>>}, windowAllocated : {TRUE},
   formats : SUBSET AllFormats, preferred : {"4.1 Core", "3.2 Core"},
   DoubleBuffer : BOOLEAN, StencilCapable : BOOLEAN]

\* CreateAWindow has created the window and the view and has just called
\* CreateGLContext: the locals of CreateGLContext before the loop.
GLInit ==
  /\ KernelIdle
  /\ thr = <<>>
  /\ call = [fn |-> "none"]
  /\ env \in GLEnvs
  /\ \E root \in {Nil, AppWindow} :
       win = CreateNSView(CreateNSWindow([NewRenderWindow(<<0, 0>>, <<0, 0>>, FALSE)
                                            EXCEPT !.OnScreenInitialized = 1,
                                                   !.RootWindow = root], env).w, env)
  /\ frame = [fn |-> "CreateGLContext", pc |-> "while",
              profileVersion |-> env.preferred, hardware |-> "accelerated",
              pixelFormat |-> Nil, attribs |-> <<>>, made |-> <<>>]

\* One pass of the while loop: the allocation of a pixel format with the
\* current profile and renderer and, if it returned nil, the fallback.
TryPixelFormat ==
  /\ frame.pc = "while"
  /\ LET attempt == <<frame.profileVersion, frame.hardware>>
         pixelFormat == IF attempt \in env.formats THEN attempt ELSE Nil
         fb == Fallback(frame.profileVersion, frame.hardware)
         tried == [frame EXCEPT !.attribs = PixelFormatAttribs(frame.profileVersion,
                                                              frame.hardware,
                                                              env.DoubleBuffer,
                                                              env.StencilCapable),
                                !.made = Append(@, attempt),
                                !.pixelFormat = pixelFormat]
     IN IF pixelFormat # Nil
        THEN /\ frame' = [tried EXCEPT !.pc = "context"]
             /\ win' = win
        ELSE /\ frame' = [tried EXCEPT !.profileVersion = fb.profileVersion,
                                       !.hardware = fb.hardware,
                                       !.pc = IF fb.brk THEN "context" ELSE "while"]
             /\ win' = IF fb.brk
                       THEN [win EXCEPT !.log = Append(@, "No OpenGL context whatsoever could be created!")]
                       ELSE win
  /\ UNCHANGED <<kvars, thr, call, env>>

\* After the loop: the context, if there is a pixel format, and the two setters.
CreateContext ==
  /\ frame.pc = "context"
  /\ win' = [win EXCEPT !.attempts = frame.made,
                        !.PixelFormat = frame.pixelFormat,
                        !.ContextId = IF frame.pixelFormat # Nil THEN "NSOpenGLContext" ELSE Nil,
                        !.glAllocs = IF frame.pixelFormat # Nil
                                     THEN @ \o <<"NSOpenGLPixelFormat", "NSOpenGLContext">>
                                     ELSE @]
  /\ frame' = [frame EXCEPT !.pc = "done"]
  /\ UNCHANGED <<kvars, thr, call, env>>

GLNext ==
  \/ TryPixelFormat
  \/ CreateContext

\* The thread that called CreateGLContext keeps running it.
GLSpec == GLInit /\ [][GLNext]_vars /\ WF_vars(GLNext)

\* ----- the claims' vocabulary for CreateGLContext

\* The attempts in their fixed order, for a preferred profile.
FallbackOrder(preferred) ==
  (IF preferred # "3.2 Core" THEN <<<<preferred, "accelerated">>>> ELSE <<>>)
  \o << <<"3.2 Core", "accelerated">>, <<"3.2 Core", "software">> >>

\* The warnings in the log of the render window.
Warnings(w) ==
  Cardinality({i \in 1..Len(w.log) :
                 w.log[i] = "No OpenGL context whatsoever could be created!"})

\* In every state of CreateGLContext: at most three attempts were made, they
\* are the first ones of the fixed order, all but the last one failed; after
\* the loop either the last attempt gave the pixel format and no warning was
\* emitted, or every attempt of the order failed and one warning was; at the
\* end PixelFormat is the format obtained and ContextId is set exactly when
\* PixelFormat is.
C21_AttemptsInOrder ==
  LET made == frame.made
      order == FallbackOrder(env.preferred)
  IN /\ Len(made) <= 3
     /\ Len(made) <= Len(order)
     /\ \A i \in 1..Len(made) : made[i] = order[i]
     /\ \A i \in 1..(Len(made) - 1) : made[i] \notin env.formats
     /\ frame.pc = "while" => /\ frame.pixelFormat = Nil
                              /\ \A i \in 1..Len(made) : made[i] \notin env.formats
                              /\ Len(made) < Len(order)
                              /\ Warnings(win) = 0
     /\ frame.pc \in {"context", "done"} =>
          /\ Len(made) >= 1
          /\ frame.pixelFormat # Nil =>
               /\ frame.pixelFormat = made[Len(made)]
               /\ frame.pixelFormat \in env.formats
               /\ Warnings(win) = 0
          /\ frame.pixelFormat = Nil =>
               /\ made = order
               /\ \A i \in 1..Len(made) : made[i] \notin env.formats
               /\ Warnings(win) = 1
     /\ frame.pc = "done" =>
          /\ win.PixelFormat = frame.pixelFormat
          /\ (win.ContextId # Nil) <=> (win.PixelFormat # Nil)
          /\ win.attempts = made
     /\ frame.pc # "done" => win.ContextId = Nil /\ win.PixelFormat = Nil

\* C21: the retry loop of CreateGLContext always terminates, after at most
\* three allocation attempts made in the fixed order preferred profile with
\* acceleration, 3.2 Core with acceleration, 3.2 Core with the software
\* renderer; if all fail it warns once and leaves PixelFormat and ContextId
\* unset, and a context is created only when a pixel format was obtained.
C21_RetryLoopTerminates == []C21_AttemptsInOrder /\ <>(frame.pc = "done")

\* CreateGLContext ended without a pixel format after three attempts.
C21_Witness ==
  /\ frame.pc = "done"
  /\ Len(frame.made) = 3
  /\ win.PixelFormat = Nil
  /\ win.ContextId = Nil
  /\ Warnings(win) = 1

\* ----- SetStereoCapableWindow

\* The warning of SetStereoCapableWindow.
StereoWarning ==
  "Requesting a StereoCapableWindow must be performed before the window is realized, i.e. before a render."

\* Mutant: the value is forwarded whether or not a context exists.
SetStereoCapableWindow_Always(w, capable) ==
  [w EXCEPT !.StereoCapableWindow = capable]

\* SetStereoCapableWindow: the value goes to the superclass setter when there
\* is no ContextId, and else a warning is emitted.
SetStereoCapableWindow(w, capable) ==
  IF w.ContextId = Nil
  THEN [w EXCEPT !.StereoCapableWindow = capable]
  ELSE [w EXCEPT !.log = Append(@, StereoWarning)]

CallSetStereoCapableWindow(capable) ==
  /\ win' = SetStereoCapableWindow([win EXCEPT !.log = <<>>], capable)
  /\ UNCHANGED <<kvars, thr, frame, call, env>>

\* A render window just constructed, with either stereo setting.
StereoInit ==
  /\ GeometryIdle
  /\ env \in WinEnvs
  /\ \E capable \in {0, 1} :
       win = [NewRenderWindow(<<0, 0>>, <<0, 0>>, FALSE) EXCEPT !.StereoCapableWindow = capable]

StereoNext ==
  \/ \E arg \in {Nil, AppWindow} : SetRootWindow(arg)
  \/ \E arg \in {Nil, AppView} : SetWindowId(arg)
  \/ CallInitialize
  \/ CallFinalize
  \/ \E capable \in {0, 1} : CallSetStereoCapableWindow(capable)

StereoSpec == StereoInit /\ [][StereoNext]_vars

\* The render window w without its stereo setting and its messages.
ButStereo(w) == [w EXCEPT !.StereoCapableWindow = 0, !.log = <<>>]

\* C22: a call of SetStereoCapableWindow on a render window that has a
\* ContextId leaves the stereo-capable setting as it was and emits one warning;
\* on a render window without a ContextId it stores the value and emits
\* nothing; it changes nothing else.
C22_StereoOnlyBeforeRealized ==
  [][\A capable \in {0, 1} :
       CallSetStereoCapableWindow(capable) =>
         /\ win.ContextId # Nil =>
              /\ win'.StereoCapableWindow = win.StereoCapableWindow
              /\ win'.log = <<StereoWarning>>
         /\ win.ContextId = Nil =>
              /\ win'.StereoCapableWindow = capable
              /\ win'.log = <<>>
         /\ ButStereo(win') = ButStereo(win)
    ]_vars

\* SetStereoCapableWindow was called on a realized render window whose
\* stereo-capable setting is 1: it warned.
C22_Witness ==
  /\ win.ContextId # Nil
  /\ win.StereoCapableWindow = 1
  /\ win.log = <<StereoWarning>>
  /\ env.formats # {}

\* ----- the notifications of vtkCocoaServer

\* static_cast<int> of a non-negative CGFloat.
ToInt(x) == x.p \div x.q

\* -convertRectToBacking: a rectangle in points, in pixels.
ConvertRectToBacking(rect, scale) ==
  [i \in 1..4 |-> NMul(rect[i], I(scale))]

\* [view frame] of the view that is the WindowId: the frame of the view
\* CreateAWindow made, the frame of the application's view, and the zero
\* rectangle a message to nil returns.
FrameOfWindowId(w, e) ==
  IF w.WindowId = VtkView THEN w.viewFrame
  ELSE IF w.WindowId = AppView THEN <<Zero, Zero, I(e.appViewSize[1]), I(e.appViewSize[2])>>
  ELSE <<Zero, Zero, Zero, Zero>>

\* -windowWillClose: past its assertions: the observations stop, the
\* RootWindow is forgotten and the interactor, if any, terminates the
\* application's run loop.
WindowWillClose(w, e) ==
  LET w1 == [w EXCEPT !.observing = @ \ StartObservations(w)]
  IN [w1 EXCEPT !.RootWindow = Nil,
                !.log = IF e.interactor # "none" THEN Append(@, "TerminateApp") ELSE @]

\* -viewFrameDidChange: past its assertions: an enabled interactor whose
\* size differs from the view's size in pixels is updated and sends a
\* ConfigureEvent.
ViewFrameDidChange(w, e) ==
  IF e.interactor # "enabled" THEN w
  ELSE LET backingViewRect == ConvertRectToBacking(FrameOfWindowId(w, e), e.scale)
           newWidth == ToInt(backingViewRect[3])
           newHeight == ToInt(backingViewRect[4])
       IN IF newWidth # w.interactorSize[1] \/ newHeight # w.interactorSize[2]
          THEN [w EXCEPT !.interactorSize = <<newWidth, newHeight>>,
                         !.log = Append(@, "ConfigureEvent")]
          ELSE w

\* The systems the notifications arrive on: without an interactor, with a
\* disabled and with an enabled one.
NotifyEnvs ==
  [screen : {TRUE}, screenSize : {<<MaxSize + 1, MaxSize>>}, scale : {2},
   parentSize : {<<MaxParent, MaxParent>>}, windowAllocated : BOOLEAN,
   formats : {{<<"3.2 Core", "accelerated">>}, {}}, preferred : {"4.1 Core"},
   interactor : {"none", "disabled", "enabled"}, appViewSize : {<<1, 1>>}]

\* A render window just constructed.
NotifyInit ==
  /\ GeometryIdle
  /\ env \in NotifyEnvs
  /\ win = NewRenderWindow(<<MaxSize, 1>>, <<0, 0>>, FALSE)

\* The NSWindow obj is closing, by the user or by -close, and the
\* notification centre tells the vtkCocoaServer, which observes obj.
DeliverWindowWillClose(obj) ==
  /\ win.CocoaServer # Nil
  /\ <<"windowWillClose", obj>> \in win.observing
  /\ win' = WindowWillClose([win EXCEPT !.log = <<>>,
                                        !.visible = IF obj = VtkWindow THEN FALSE ELSE @],
                            env)
  /\ UNCHANGED <<kvars, thr, frame, call, env>>

\* The frame of the NSView obj has changed to the given size in points, and
\* the notification centre tells the vtkCocoaServer, which observes obj.
DeliverViewFrameDidChange(obj, size) ==
  /\ win.CocoaServer # Nil
  /\ <<"viewFrameDidChange", obj>> \in win.observing
  /\ win' = ViewFrameDidChange(
              [win EXCEPT !.log = <<>>,
                          !.viewFrame = IF obj = VtkView
                                        THEN <<@[1], @[2], I(size[1]), I(size[2])>>
                                        ELSE @],
              env)
  /\ UNCHANGED <<kvars, thr, frame, call, env>>

\* The sizes a view is resized to.
ViewSizes == {<<1, 1>>, <<MaxSize, 1>>}

NotifyNext ==
  \/ \E arg \in {Nil, AppWindow} : SetRootWindow(arg)
  \/ \E arg \in {Nil, AppView} : SetWindowId(arg)
  \/ CallInitialize
  \/ CallFinalize
  \/ \E obj \in {VtkWindow, AppWindow} : DeliverWindowWillClose(obj)
  \/ \E obj \in {VtkView, AppView} : \E size \in ViewSizes : DeliverViewFrameDidChange(obj, size)

NotifySpec == NotifyInit /\ [][NotifyNext]_vars

\* C23: whenever windowWillClose is delivered, WindowCreated is 1 and the
\* closing NSWindow is the current RootWindow, and whenever viewFrameDidChange
\* is delivered, ViewCreated is 1 and the notifying NSView is the current
\* WindowId: the assertions of the two handlers hold.
C23_CallbacksOnlyForOwnObjects ==
  [][/\ \A obj \in {VtkWindow, AppWindow} :
          DeliverWindowWillClose(obj) => win.WindowCreated = 1 /\ obj = win.RootWindow
     /\ \A obj \in {VtkView, AppView} : \A size \in ViewSizes :
          DeliverViewFrameDidChange(obj, size) => win.ViewCreated = 1 /\ obj = win.WindowId
    ]_vars

\* C24: DestroyWindow sends close only to an NSWindow this render window
\* created itself: an NSWindow the application supplied through SetRootWindow
\* is never closed by the render window.
C24_ClosesOnlyOwnWindow == win.closed \subseteq {VtkWindow}

\* ----- Initialize, IsDrawable and Finalize in any order

\* The window of the view that is the WindowId is on screen: for the content
\* view of the NSWindow CreateAWindow made that is the window's visibility,
\* for any other view a fact of the application.
ViewOnScreen(w, e) ==
  IF w.WindowId = Nil THEN FALSE
  ELSE IF w.WindowId = VtkView /\ w.ParentId = Nil /\ w.WindowCreated = 1 THEN w.visible
  ELSE e.appOnScreen

\* What IsDrawable returns on the initialized render window: whether the
\* view's window is on screen and the context has a view.
Drawable(w, e) ==
  [w |-> w, ret |-> ViewOnScreen(w, e) /\ w.ContextId # Nil /\ w.contextView # Nil]

\* IsDrawable: Initialize, then the two tests.
IsDrawable(w, e) == Drawable(Initialize(w, e), e)

CallIsDrawable ==
  /\ win.count <= MaxWindows
  /\ \E r \in {IsDrawable([win EXCEPT !.log = <<>>], env)} :
       /\ win' = r.w
       /\ call' = [fn |-> "IsDrawable", ret |-> r.ret]
  /\ UNCHANGED <<kvars, thr, frame, env>>

\* The systems of WinEnvs, with the application's views on and off screen.
CycleEnvs ==
  [screen : {TRUE}, screenSize : {<<MaxSize + 1, MaxSize>>}, scale : {2},
   parentSize : {<<MaxParent, MaxParent>>}, windowAllocated : BOOLEAN,
   formats : {{<<"3.2 Core", "software">>}, {}}, preferred : {"4.1 Core"},
   appOnScreen : BOOLEAN]

CycleInit ==
  /\ GeometryIdle
  /\ env \in CycleEnvs
  /\ win = NewRenderWindow(<<MaxSize, 1>>, <<0, 0>>, FALSE)

CycleNext ==
  \/ \E arg \in {Nil, AppWindow} : SetRootWindow(arg)
  \/ \E arg \in {Nil, AppView} : SetWindowId(arg)
  \/ \E arg \in {Nil, AppParent} : SetParentId(arg)
  \/ CallInitialize
  \/ CallIsDrawable
  \/ CallFinalize

CycleSpec == CycleInit /\ [][CycleNext]_vars

\* ----- the claims' vocabulary for the cycle

\* The contexts allocated since the last DestroyWindow.
Contexts(w) ==
  Cardinality({i \in 1..Len(w.glAllocs) : w.glAllocs[i] = "NSOpenGLContext"})

\* What CreateAWindow creates and sets.
Creation(w) ==
  <<w.RootWindow, w.WindowId, w.ParentId, w.ContextId, w.PixelFormat, w.CocoaServer,
    w.WindowCreated, w.ViewCreated, w.Mapped, w.OnScreenInitialized,
    w.allocs, w.glAllocs, w.attempts, w.count, w.WindowName, w.observing>>

\* In every state at most one context was allocated since the last
\* DestroyWindow, and a mapped render window is initialized.
C25_OneContextPerCycle ==
  /\ Contexts(win) <= 1
  /\ win.Mapped = 1 => win.OnScreenInitialized = 1

\* C25: CreateAWindow runs at most once between two Finalize calls: an
\* Initialize or IsDrawable call on a render window whose OnScreenInitialized
\* is 1 creates and sets nothing, also after an attempt that failed to
\* create the NSWindow; a call that does create starts with the flag at 0
\* and ends with it at 1; at most one GL context is allocated per cycle; and
\* Mapped = 1 implies OnScreenInitialized = 1 in every state.
C25_CreationOncePerCycle ==
  /\ []C25_OneContextPerCycle
  /\ [][(CallInitialize \/ CallIsDrawable) =>
          /\ win.OnScreenInitialized = 1 => Creation(win') = Creation(win)
          /\ Creation(win') # Creation(win) =>
               win.OnScreenInitialized = 0 /\ win'.OnScreenInitialized = 1
          /\ win'.OnScreenInitialized = 1
       ]_vars

\* Initialize or IsDrawable ran again on a render window whose view
\* CreateAWindow had made and the application has replaced since: the
\* context was attached to the new view and nothing was created.
C25_Witness ==
  /\ win.OnScreenInitialized = 1
  /\ win.ViewCreated = 1
  /\ win.WindowId = AppView
  /\ win.contextView = AppView
  /\ win.allocs = <<"NSWindow", "NSView">>
  /\ Contexts(win) = 1

\* The flags of the render window w are 0 and its objects unset.
Cleared(w) ==
  /\ w.OnScreenInitialized = 0 /\ w.WindowCreated = 0 /\ w.ViewCreated = 0 /\ w.Mapped = 0
  /\ w.ContextId = Nil /\ w.PixelFormat = Nil /\ w.CocoaServer = Nil
  /\ w.WindowId = Nil /\ w.ParentId = Nil /\ w.RootWindow = Nil

\* The render window w without the messages of its last call.
ButLog(w) == [w EXCEPT !.log = <<>>]

\* C26: a Finalize call on a render window whose OnScreenInitialized is 1
\* leaves OnScreenInitialized, WindowCreated, ViewCreated and Mapped at 0 and
\* ContextId, PixelFormat, CocoaServer, WindowId, ParentId and RootWindow
\* unset, whoever supplied them; a Finalize call on a render window whose
\* OnScreenInitialized is 0 changes nothing; so a second Finalize changes
\* nothing.
C26_FinalizeClearsAndIsIdempotent ==
  [][CallFinalize =>
       /\ win.OnScreenInitialized = 1 => Cleared(win')
       /\ win.OnScreenInitialized = 0 => ButLog(win') = ButLog(win)
       /\ win'.OnScreenInitialized = 0
    ]_vars

\* Finalize has run on an initialized render window whose NSWindow
\* CreateAWindow had made: the window was closed and everything is unset.
C26_Witness ==
  /\ Cleared(win)
  /\ win.closed = {VtkWindow}
  /\ win.count = 2
  /\ win.allocs = <<"NSWindow", "NSView">>

\* ----- PushContext and PopContext

\* A context of another render window or library.
OtherContext == "NSOpenGLContext of another owner"

\* PushContext nests up to MaxDepth deep.
MaxDepth == 3

\* PushContext: the current context goes onto the ContextStack, and this
\* render window's context is made current unless it already is.
PushContext(w) ==
  LET current == w.current
      mine == w.ContextId
      pushed == [w EXCEPT !.ContextStack = Append(@, current)]
  IN IF current # mine THEN MakeCurrent(pushed) ELSE pushed

\* PopContext: the top of the ContextStack is taken off and, unless it is
\* current already, sent -makeCurrentContext; a message to nil does nothing.
PopContext(w) ==
  LET current == w.current
      target == w.ContextStack[Len(w.ContextStack)]
      popped == [w EXCEPT !.ContextStack = SubSeq(@, 1, Len(@) - 1)]
  IN IF target # current /\ target # Nil
     THEN [popped EXCEPT !.current = target]
     ELSE popped

\* A render window before or after Initialize, on a system with or without
\* pixel formats, while no context, its own or another context is current.
\* frame is the history of the contexts that were current before each
\* PushContext that has no PopContext yet.
StackInit ==
  /\ KernelIdle
  /\ thr = <<>>
  /\ call = [fn |-> "none"]
  /\ frame = <<>>
  /\ env \in WinEnvs
  /\ \E size \in {<<0, 0>>, <<MaxSize, 1>>} : \E initialized \in BOOLEAN :
     \E current \in {Nil, OtherContext, "NSOpenGLContext"} :
       \E w \in {IF initialized
                 THEN Initialize(NewRenderWindow(size, <<0, 0>>, FALSE), env)
                 ELSE NewRenderWindow(size, <<0, 0>>, FALSE)} :
         /\ current = "NSOpenGLContext" => w.ContextId = "NSOpenGLContext"
         /\ win = [w EXCEPT !.current = current, !.log = <<>>]

CallPushContext ==
  /\ Len(win.ContextStack) < MaxDepth
  /\ win' = PushContext(win)
  /\ frame' = Append(frame, win.current)
  /\ UNCHANGED <<kvars, thr, call, env>>

\* PopContext is called after a PushContext only: on an empty stack its
\* top() is undefined.
CallPopContext ==
  /\ Len(win.ContextStack) > 0
  /\ win' = PopContext(win)
  /\ frame' = SubSeq(frame, 1, Len(frame) - 1)
  /\ UNCHANGED <<kvars, thr, call, env>>

StackNext ==
  \/ CallPushContext
  \/ CallPopContext

StackSpec == StackInit /\ [][StackNext]_vars

\* C27: PopContext undoes its PushContext: after it the current context is
\* the one that was current immediately before that PushContext, whether this
\* render window's context, another context or none, and the ContextStack has
\* the depth it had then; so it is after every properly nested sequence of
\* such pairs.
C27_PushPopRoundTrip ==
  [][CallPopContext =>
       /\ win'.current = frame[Len(frame)]
       /\ Len(win'.ContextStack) = Len(frame) - 1
       /\ Len(win.ContextStack) = Len(frame)
    ]_vars

====
